---- MODULE Spec2Model ----
(***************************************************************************)
(* A model of the MotionCam .mcraw FUSE mounter (mcraw-mounter-fuse.cpp):   *)
(* the scan of the executable's directory, the per-capture FSContext with   *)
(* its rolling frame cache, and the four FUSE callbacks.                    *)
(*                                                                         *)
(* Strings are sequences of one-character strings, so that path parsing     *)
(* (find('/'), substr) and frameName's "%s_%06d.dng" formatting are         *)
(* computed as the code computes them.                                      *)
(***************************************************************************)
EXTENDS Integers, Sequences, FiniteSets, TLC

\* ------------------------------------------------------------ constants

\* errno values returned (negated) by the callbacks
ENOENT == 2
EIO == 5
EACCES == 13
EISDIR == 21

\* st_mode bits: S_IFDIR | 0555 and S_IFREG | 0444
S_IFDIR == 16384
S_IFREG == 32768
DirPerm == 365
FilePerm == 292

\* open(2) access modes; the handler masks the flags with 3
O_RDONLY == 0
O_ACCMODE == 3

\* FSContext::MAX_CACHE_FRAMES
MAX_CACHE_FRAMES == 5

\* ------------------------------------------------------------ bounds

\* frames of each small capture that has frames
SmallFrames == 2
\* length in bytes of the longest serialized DNG; the frames after a change
\* of resolution serialize to one byte less
MaxDngLen == 2
\* length in bytes of the WAV file of a capture with audio
AudioLen == 2
\* fs_read is called with offset in 0..MaxOffset and size in 0..MaxSize
MaxOffset == 2
MaxSize == 2
\* open flags are drawn from 0..MaxFlags (access mode in the low two bits)
MaxFlags == 4
\* cache inserts followed per capture (the mount-time warm-up included)
MaxInserts == 7

\* the large capture has one frame more than the cache holds
BigFrames == MAX_CACHE_FRAMES + 1

\* ------------------------------------------------------------ strings

Slash == "/"
DotDng == <<".", "d", "n", "g">>
DotWav == <<".", "w", "a", "v">>
DotName == <<".">>
DotDotName == <<".", ".">>
RootPath == <<"/">>

DigitChars == <<"0", "1", "2", "3", "4", "5", "6", "7", "8", "9">>

RECURSIVE Decimal(_)
\* the decimal digits of a non-negative int, as printf's %d writes them
Decimal(n) ==
    IF n < 10 THEN <<DigitChars[n + 1]>>
    ELSE Decimal(n \div 10) \o <<DigitChars[(n % 10) + 1]>>

RECURSIVE ZeroPad(_, _)
\* printf's 0-flag with a minimum field width: pads on the left, never truncates
ZeroPad(ds, width) ==
    IF Len(ds) >= width THEN ds ELSE ZeroPad(<<"0">> \o ds, width)

\* a mutation of frameName: the index is printed one-based
frameNameOneBased(base, i) == base \o <<"_">> \o ZeroPad(Decimal(i + 1), 6) \o DotDng

\* frameName: snprintf(buf, sizeof buf, "%s_%06d.dng", base, i)
frameName(base, i) == base \o <<"_">> \o ZeroPad(Decimal(i), 6) \o DotDng

\* ctx.baseName + ".wav"
AudioName(base) == base \o DotWav

\* std::string::find('/'): the 0-based index of the first '/', or -1 (npos)
FindSlash(s) ==
    IF \E k \in 1..Len(s) : s[k] = Slash
    THEN (CHOOSE k \in 1..Len(s) : s[k] = Slash /\ \A j \in 1..(k - 1) : s[j] # Slash) - 1
    ELSE -1

\* std::string::substr(pos) and substr(0, n), with 0-based positions
SubstrFrom(s, pos) == SubSeq(s, pos + 1, Len(s))
SubstrTo(s, n) == SubSeq(s, 1, n)

\* the order of std::map<std::string, ...> keys: lexicographic on characters
Alphabet == <<".", "/", "0", "1", "2", "3", "4", "5", "6", "7", "8", "9",
              "_", "a", "b", "c", "d", "g", "j", "k", "n", "u", "v", "w", "x">>
CharOrd(c) == CHOOSE k \in 1..Len(Alphabet) : Alphabet[k] = c

RECURSIVE StrLess(_, _)
StrLess(s, t) ==
    IF t = <<>> THEN FALSE
    ELSE IF s = <<>> THEN TRUE
    ELSE IF s[1] # t[1] THEN CharOrd(s[1]) < CharOrd(t[1])
    ELSE StrLess(Tail(s), Tail(t))

RECURSIVE SortedKeys(_)
\* the keys of a std::map in iteration order
SortedKeys(S) ==
    IF S = {} THEN <<>>
    ELSE LET m == CHOOSE x \in S : \A y \in S \ {x} : StrLess(x, y)
         IN <<m>> \o SortedKeys(S \ {m})

Range(s) == {s[k] : k \in 1..Len(s)}

\* ------------------------------------------------------------ the containers

\* The .mcraw files in the executable's directory. A file is
\*   [frames   : the container's frames in getFrames() order, each with its
\*               timestamp and the byte length its DNG serializes to,
\*    corrupt  : the Decoder constructor throws,
\*    wav      : the bytes getAudio produces (empty: no audio data),
\*    audioThrows : loadAudio throws,
\*    orientation : the "orientation" key of the container metadata, <<v>>
\*                  when the container has one and <<>> when it has none]
Timestamp(i) == 1000 + 33 * i

\* the frames of a capture of n frames whose resolution (hence DNG length)
\* changes at frame index switchAt: MaxDngLen before, MaxDngLen - 1 from there on
FramesOf(n, switchAt) ==
    [k \in 1..n |-> [ts |-> Timestamp(k - 1),
                     dngLen |-> IF k - 1 < switchAt THEN MaxDngLen ELSE MaxDngLen - 1]]

WavBytes(n) == [k \in 1..n |-> 200 + k]

BaseA == <<"a">>
BaseB == <<"b">>
BaseC == <<"c">>
BaseD == <<"d">>
BaseX == <<"x">>

\* one large capture, uniform (switchAt = BigFrames) or of mixed resolution
BigDirectory(switchAt) ==
    (BaseA :> [frames |-> FramesOf(BigFrames, switchAt), corrupt |-> FALSE,
               wav |-> <<>>, audioThrows |-> FALSE, orientation |-> <<>>])

\* several small captures: a with audio, b of mixed resolution whose loadAudio
\* throws, c without frames, d that the Decoder cannot open
SmallDirectory ==
    (BaseA :> [frames |-> FramesOf(SmallFrames, SmallFrames), corrupt |-> FALSE,
               wav |-> WavBytes(AudioLen), audioThrows |-> FALSE,
               orientation |-> <<6>>])
    @@ (BaseB :> [frames |-> FramesOf(SmallFrames, 1), corrupt |-> FALSE,
                  wav |-> WavBytes(AudioLen), audioThrows |-> TRUE,
                  orientation |-> <<>>])
    @@ (BaseC :> [frames |-> <<>>, corrupt |-> FALSE,
                  wav |-> <<>>, audioThrows |-> FALSE, orientation |-> <<1>>])
    @@ (BaseD :> [frames |-> FramesOf(1, 1), corrupt |-> TRUE,
                  wav |-> <<>>, audioThrows |-> FALSE, orientation |-> <<>>])

\* a directory whose only file cannot be opened
CorruptDirectory ==
    (BaseD :> [frames |-> FramesOf(1, 1), corrupt |-> TRUE,
               wav |-> <<>>, audioThrows |-> FALSE, orientation |-> <<>>])

Directories == {SmallDirectory, CorruptDirectory}
LargeDirectories == {BigDirectory(s) : s \in {1, BigFrames}} \cup {CorruptDirectory}

\* decoder->getFrames(): the timestamps in container order
GetFrames(file) == [k \in 1..Len(file.frames) |-> file.frames[k].ts]

\* decoder->loadFrame(ts, raw, metadata) when it does not throw: the frame
\* stored under that timestamp
DecoderLoadFrame(decoder, ts) ==
    CHOOSE fr \in Range(decoder.frames) : fr.ts = ts

\* the bytes DNGWriter::WriteToFile produces for a loaded frame: the length
\* follows the frame's width and height, the content is the frame's own
PackDng(fr) == [k \in 1..fr.dngLen |-> fr.ts + k]

\* ------------------------------------------------------------ FSContext

\* struct FSContext, as main fills it before the capture is mounted
NewContext(base, file) ==
    [baseName |-> base,
     decoder |-> file,
     frameList |-> <<>>,
     filenames |-> <<>>,
     frameCache |-> <<>>,
     frameCacheOrder |-> <<>>,
     frameSize |-> 0,
     orientation |-> 1,
     audioWavData |-> <<>>,
     audioSize |-> 0]

\* cache_container_metadata: black and white levels, the colour matrices and
\* the CFA pattern are taken from the container metadata; of the fields
\* followed here it assigns none, the "orientation" key is not looked at
cache_container_metadata(ctx) == ctx

\* load_frame: if (ctx->orientation) dng.SetOrientation(ctx->orientation);
\* the Orientation tag of the DNG, <<v>> when set and <<>> when not
DngOrientation(ctx) == IF ctx.orientation # 0 THEN <<ctx.orientation>> ELSE <<>>

\* frameCache is a std::map<std::string, std::string>: a function on its keys
CacheKeys(ctx) == DOMAIN ctx.frameCache
CacheErase(cache, key) == [k \in (DOMAIN cache) \ {key} |-> cache[k]]
\* a mutation of the map store: the entries share one buffer, which every
\* store overwrites
CachePutShared(cache, key, blob) == [k \in (DOMAIN cache) \cup {key} |-> blob]
CachePut(cache, key, blob) ==
    [k \in (DOMAIN cache) \cup {key} |-> IF k = key THEN blob ELSE cache[k]]

\* the loop of load_frame that finds path in filenames: its 0-based index, or -1
FindIndex(filenames, path) ==
    IF \E k \in 1..Len(filenames) : filenames[k] = path
    THEN (CHOOSE k \in 1..Len(filenames) :
            filenames[k] = path /\ \A j \in 1..(k - 1) : filenames[j] # path) - 1
    ELSE -1

\* mutations of the eviction step: the newest entry is dropped instead of the
\* oldest, or nothing is evicted at all
EvictNewest(ctx) ==
    IF Cardinality(CacheKeys(ctx)) >= MAX_CACHE_FRAMES
    THEN [ctx EXCEPT
            !.frameCache = CacheErase(@, ctx.frameCacheOrder[Len(ctx.frameCacheOrder)]),
            !.frameCacheOrder = SubSeq(@, 1, Len(@) - 1)]
    ELSE ctx
EvictNever(ctx) == ctx

\* load_frame, the rolling buffer: at capacity the front of frameCacheOrder
\* is erased from the map and popped
EvictIfFull(ctx) ==
    IF Cardinality(CacheKeys(ctx)) >= MAX_CACHE_FRAMES
    THEN [ctx EXCEPT
            !.frameCache = CacheErase(@, Head(ctx.frameCacheOrder)),
            !.frameCacheOrder = Tail(@)]
    ELSE ctx

\* load_frame: frameCache[path] = oss.str(); frameCacheOrder.push_back(path)
CacheInsert(ctx, path, blob) ==
    [ctx EXCEPT !.frameCache = CachePut(@, path, blob),
                !.frameCacheOrder = Append(@, path)]

\* a mutation of the size record: every insert overwrites frameSize
RecordFrameSizeAlways(ctx, path) ==
    [ctx EXCEPT !.frameSize = Len(ctx.frameCache[path])]

\* load_frame: if (frameSize == 0) frameSize = frameCache[path].size()
RecordFrameSize(ctx, path) ==
    IF ctx.frameSize = 0
    THEN [ctx EXCEPT !.frameSize = Len(ctx.frameCache[path])]
    ELSE ctx

\* The outcomes of the two fallible calls of load_frame: loadFrame throws,
\* WriteToFile fails, or both succeed.
Outcomes == {"ok", "throw", "packfail"}

\* a mutation of load_frame: room is made in the rolling buffer before the
\* frame is decoded, so a failed decode has already evicted the oldest entry
LoadFrameEvictsFirst(ctx, path, outcome) ==
    IF path \in CacheKeys(ctx)
    THEN [ctx |-> ctx, rc |-> 0, calls |-> <<>>]
    ELSE LET idx == FindIndex(ctx.filenames, path) IN
         IF idx < 0
         THEN [ctx |-> ctx, rc |-> -ENOENT, calls |-> <<>>]
         ELSE LET ts == ctx.frameList[idx + 1] IN
              IF outcome = "throw" \/ outcome = "packfail"
              THEN [ctx |-> EvictIfFull(ctx), rc |-> -EIO, calls |-> <<ts>>]
              ELSE LET blob == PackDng(DecoderLoadFrame(ctx.decoder, ts))
                       put == CacheInsert(EvictIfFull(ctx), path, blob)
                   IN [ctx |-> RecordFrameSize(put, path), rc |-> 0, calls |-> <<ts>>]

\* a mutation of load_frame: a hit moves the name to the back of
\* frameCacheOrder, as a least-recently-used cache would
LoadFrameRefreshOnHit(ctx, path, outcome) ==
    IF path \in CacheKeys(ctx)
    THEN [ctx |-> [ctx EXCEPT !.frameCacheOrder =
                      SelectSeq(@, LAMBDA n : n # path) \o <<path>>],
          rc |-> 0, calls |-> <<>>]
    ELSE LET idx == FindIndex(ctx.filenames, path) IN
         IF idx < 0
         THEN [ctx |-> ctx, rc |-> -ENOENT, calls |-> <<>>]
         ELSE LET ts == ctx.frameList[idx + 1] IN
              IF outcome = "throw" \/ outcome = "packfail"
              THEN [ctx |-> ctx, rc |-> -EIO, calls |-> <<ts>>]
              ELSE LET blob == PackDng(DecoderLoadFrame(ctx.decoder, ts))
                       put == CacheInsert(EvictIfFull(ctx), path, blob)
                   IN [ctx |-> RecordFrameSize(put, path), rc |-> 0, calls |-> <<ts>>]

\* load_frame(ctx, path): the context afterwards, the value returned and the
\* timestamps passed to decoder->loadFrame
load_frame(ctx, path, outcome) ==
    IF path \in CacheKeys(ctx)
    THEN [ctx |-> ctx, rc |-> 0, calls |-> <<>>]
    ELSE LET idx == FindIndex(ctx.filenames, path) IN
         IF idx < 0
         THEN [ctx |-> ctx, rc |-> -ENOENT, calls |-> <<>>]
         ELSE LET ts == ctx.frameList[idx + 1] IN
              IF outcome = "throw" \/ outcome = "packfail"
              THEN [ctx |-> ctx, rc |-> -EIO, calls |-> <<ts>>]
              ELSE LET blob == PackDng(DecoderLoadFrame(ctx.decoder, ts))
                       put == CacheInsert(EvictIfFull(ctx), path, blob)
                   IN [ctx |-> RecordFrameSize(put, path), rc |-> 0, calls |-> <<ts>>]

\* ------------------------------------------------------------ FUSE callbacks

\* struct fuse_stat after memset(st, 0, sizeof *st)
ZeroStat == [st_mode |-> 0, st_nlink |-> 0, st_size |-> 0]
DirStat == [st_mode |-> S_IFDIR + DirPerm, st_nlink |-> 2, st_size |-> 0]
FileStat(size) == [st_mode |-> S_IFREG + FilePerm, st_nlink |-> 1, st_size |-> size]

\* a mutation of the WAV branch of fs_getattr: the audioSize check is missing
StatAudioAlways(ctx) == [rc |-> 0, st |-> FileStat(ctx.audioSize)]

\* fs_getattr, the branch fname == audioName
StatAudio(ctx) ==
    IF ctx.audioSize = 0
    THEN [rc |-> -ENOENT, st |-> ZeroStat]
    ELSE [rc |-> 0, st |-> FileStat(ctx.audioSize)]

\* fs_getattr, the branch of the frame files: std::find in filenames
StatFrame(ctx, fname) ==
    IF fname \notin Range(ctx.filenames)
    THEN [rc |-> -ENOENT, st |-> ZeroStat]
    ELSE [rc |-> 0, st |-> FileStat(ctx.frameSize)]

\* fs_getattr(path, st): the value returned and *st
fs_getattr(ctxs, p) ==
    IF p = RootPath
    THEN [rc |-> 0, st |-> DirStat]
    ELSE LET rest == SubstrFrom(p, 1)
             slash == FindSlash(rest)
         IN IF slash = -1
            THEN IF rest \in DOMAIN ctxs
                 THEN [rc |-> 0, st |-> DirStat]
                 ELSE [rc |-> -ENOENT, st |-> ZeroStat]
            ELSE LET base == SubstrTo(rest, slash)
                     fname == SubstrFrom(rest, slash + 1)
                 IN IF base \notin DOMAIN ctxs
                    THEN [rc |-> -ENOENT, st |-> ZeroStat]
                    ELSE LET ctx == ctxs[base] IN
                         IF fname = AudioName(ctx.baseName)
                         THEN StatAudio(ctx)
                         ELSE StatFrame(ctx, fname)

\* a mutation of the capture listing: the WAV entry is emitted unconditionally
\* and before the frames
ListCaptureWavFirst(ctx) ==
    <<DotName, DotDotName, AudioName(ctx.baseName)>> \o ctx.filenames

\* fs_readdir on a capture: the names passed to filler, in order
ListCapture(ctx) ==
    <<DotName, DotDotName>> \o ctx.filenames
        \o (IF ctx.audioSize # 0 THEN <<AudioName(ctx.baseName)>> ELSE <<>>)

\* fs_readdir(path, buf, filler, ...): the value returned and the names
\* passed to filler, in order
fs_readdir(ctxs, p) ==
    IF p = RootPath
    THEN [rc |-> 0, entries |-> <<DotName, DotDotName>> \o SortedKeys(DOMAIN ctxs)]
    ELSE LET rest == SubstrFrom(p, 1) IN
         IF rest \notin DOMAIN ctxs
         THEN [rc |-> -ENOENT, entries |-> <<>>]
         ELSE [rc |-> 0, entries |-> ListCapture(ctxs[rest])]

\* a mutation of the access check: every open is accepted
AccessAny(flags) == 0

\* fs_open: ((fi->flags & 3) == O_RDONLY) ? 0 : -EACCES
AccessCheck(flags) ==
    IF flags % (O_ACCMODE + 1) = O_RDONLY THEN 0 ELSE -EACCES

\* fs_open(path, fi): the value returned
fs_open(ctxs, p, flags) ==
    IF Len(p) < 2 \/ p[1] # Slash
    THEN -ENOENT
    ELSE LET rest == SubstrFrom(p, 1)
             slash == FindSlash(rest)
         IN IF slash = -1
            THEN -EISDIR
            ELSE LET base == SubstrTo(rest, slash)
                     fname == SubstrFrom(rest, slash + 1)
                 IN IF base \notin DOMAIN ctxs
                    THEN -ENOENT
                    ELSE LET ctx == ctxs[base] IN
                         IF fname = AudioName(ctx.baseName)
                         THEN AccessCheck(flags)
                         ELSE IF fname \notin Range(ctx.filenames)
                              THEN -ENOENT
                              ELSE AccessCheck(flags)

Min(a, b) == IF a < b THEN a ELSE b

\* a mutation of the copy length: the requested size is not clipped to the
\* end of the data
ToCopyUnclipped(size, len, offset) ==
    IF offset >= len THEN 0 ELSE size

\* fs_read: 0 at or past the end, else min(size, data.size() - offset)
ToCopy(size, len, offset) ==
    IF offset >= len THEN 0 ELSE Min(size, len - offset)

\* memcpy(buf, data.data() + offset, tocopy): the bytes written to buf; a
\* byte taken from behind the end of data is not one of its bytes (-1)
CopyOut(data, offset, tocopy) ==
    [k \in 1..tocopy |-> IF offset + k <= Len(data) THEN data[offset + k] ELSE -1]

\* fs_read(path, buf, size, offset, fi): the value returned, the bytes written
\* to buf, the contexts afterwards and the timestamps passed to loadFrame
fs_read(ctxs, p, size, offset, outcome) ==
    LET rest == SubstrFrom(p, 1)
        slash == FindSlash(rest)
    IN IF slash = -1
       THEN [rc |-> -EISDIR, buf |-> <<>>, ctxs |-> ctxs, calls |-> <<>>]
       ELSE LET base == SubstrTo(rest, slash)
                fname == SubstrFrom(rest, slash + 1)
            IN IF base \notin DOMAIN ctxs
               THEN [rc |-> -ENOENT, buf |-> <<>>, ctxs |-> ctxs, calls |-> <<>>]
               ELSE LET ctx == ctxs[base] IN
                    IF fname = AudioName(ctx.baseName)
                    THEN LET n == ToCopy(size, ctx.audioSize, offset) IN
                         [rc |-> n, buf |-> CopyOut(ctx.audioWavData, offset, n),
                          ctxs |-> ctxs, calls |-> <<>>]
                    ELSE LET lf == load_frame(ctx, fname, outcome)
                             after == [ctxs EXCEPT ![base] = lf.ctx]
                         IN IF lf.rc < 0
                            THEN [rc |-> lf.rc, buf |-> <<>>, ctxs |-> after,
                                  calls |-> lf.calls]
                            ELSE IF fname \notin CacheKeys(lf.ctx)
                                 THEN [rc |-> -ENOENT, buf |-> <<>>, ctxs |-> after,
                                       calls |-> lf.calls]
                                 ELSE LET data == lf.ctx.frameCache[fname]
                                          n == ToCopy(size, Len(data), offset)
                                      IN [rc |-> n, buf |-> CopyOut(data, offset, n),
                                          ctxs |-> after, calls |-> lf.calls]

\* ------------------------------------------------------------ main

\* main, the body of the scan loop after the Decoder is constructed:
\* frame list, file names, warm-up of the first frame (its result is not
\* looked at), audio.
FillNames(ctx) ==
    [ctx EXCEPT !.frameList = GetFrames(ctx.decoder),
                !.filenames = [k \in 1..Len(ctx.decoder.frames) |->
                                  frameName(ctx.baseName, k - 1)]]

\* if (!ctx.filenames.empty()) load_frame(&ctx, ctx.filenames[0]);
WarmUp(ctx, outcome) ==
    IF ctx.filenames # <<>>
    THEN load_frame(ctx, ctx.filenames[1], outcome)
    ELSE [ctx |-> ctx, rc |-> 0, calls |-> <<>>]

\* the try block around loadAudio/getAudio: on an exception audioWavData and
\* audioSize keep their initial values
LoadAudio(ctx) ==
    IF ctx.decoder.audioThrows
    THEN ctx
    ELSE [ctx EXCEPT !.audioWavData = ctx.decoder.wav,
                     !.audioSize = Len(ctx.decoder.wav)]

\* ------------------------------------------------------------ raw codec

ENCODING_BLOCK == 64
HEADER_LENGTH == 2
METADATA_OFFSET == 16
WordMod == 65536

\* static constexpr int ENCODING_BLOCK_LEN[17], indexed by bits (0-based)
ENCODING_BLOCK_LEN ==
    <<0, 8, 16, 24, 32, 40, 48, 64, 64, 80, 80, 128, 128, 128, 128, 128, 128>>
BlockLen(bits) == ENCODING_BLOCK_LEN[bits + 1]

\* uint16_t bit operations
RECURSIVE AndFrom(_, _, _)
AndFrom(a, b, k) ==
    IF k = 16 THEN 0
    ELSE (((a \div 2^k) % 2) * ((b \div 2^k) % 2)) * 2^k + AndFrom(a, b, k + 1)
BitAnd(a, b) == AndFrom(a, b, 0)
BitOr(a, b) == a + b - BitAnd(a, b)

\* NEON vectors of eight 16-bit lanes
Lanes == 1..8
\* a mutation of Load8: the eight bytes fill the lanes from the last one down
Load8Reversed(input, ptr) == [j \in Lanes |-> input[ptr + 9 - j]]
\* Load8(ptr): vmovl_u8(vld1_u8(ptr)), byte j of the eight goes to lane j
Load8(input, ptr) == [j \in Lanes |-> input[ptr + j]]
vdupq_n_u16(c) == [j \in Lanes |-> c]
vandq_u16(a, b) == [j \in Lanes |-> BitAnd(a[j], b[j])]
vorrq_u16(a, b) == [j \in Lanes |-> BitOr(a[j], b[j])]
vshrq_n_u16(a, n) == [j \in Lanes |-> a[j] \div 2^n]
vshlq_n_u16(a, n) == [j \in Lanes |-> (a[j] * 2^n) % WordMod]
\* Store8(output + at, v)
Store8(output, at, v) ==
    [i \in 1..Len(output) |-> IF at < i /\ i <= at + 8 THEN v[i - at] ELSE output[i]]

\* the stores of a kernel, applied in order: vs[k] goes to output + at + 8(k-1)
RECURSIVE StoreAll(_, _, _)
StoreAll(output, at, vs) ==
    IF vs = <<>> THEN output
    ELSE StoreAll(Store8(output, at, Head(vs)), at + 8, Tail(vs))

\* what a kernel hands back: the output array and the input pointer returned
Kernel(output, next) == [output |-> output, next |-> next]

\* bits = 0: memset of the sixty-four values
Decode0(output, input, ptr) ==
    Kernel([i \in 1..Len(output) |-> IF i <= ENCODING_BLOCK THEN 0 ELSE output[i]], ptr)

Decode1(output, input, ptr) ==
    LET p == Load8(input, ptr)
        one == vdupq_n_u16(1)
        r == [k \in 1..8 |-> vandq_u16(vshrq_n_u16(p, k - 1), one)]
    IN Kernel(StoreAll(output, 0, r), ptr + BlockLen(1))

\* the lambda sub of Decode2
Sub2(output, at, input, ptr) ==
    LET p == Load8(input, ptr)
        m3 == vdupq_n_u16(3)
        r == [k \in 1..4 |-> vandq_u16(vshrq_n_u16(p, 2 * (k - 1)), m3)]
    IN StoreAll(output, at, r)

Decode2(output, input, ptr) ==
    Kernel(Sub2(Sub2(output, 0, input, ptr), 32, input, ptr + 8), ptr + BlockLen(2))

Decode3(output, input, ptr) ==
    LET N == vdupq_n_u16(7)
        T == vdupq_n_u16(3)
        R == vdupq_n_u16(1)
        p0 == Load8(input, ptr)
        p1 == Load8(input, ptr + 8)
        p2 == Load8(input, ptr + 16)
        r0 == vandq_u16(p0, N)
        r1 == vandq_u16(vshrq_n_u16(p0, 3), N)
        t2 == vandq_u16(vshrq_n_u16(p0, 6), T)
        r3 == vandq_u16(p1, N)
        r4 == vandq_u16(vshrq_n_u16(p1, 3), N)
        t5 == vandq_u16(vshrq_n_u16(p1, 6), T)
        r6 == vandq_u16(p2, N)
        r7 == vandq_u16(vshrq_n_u16(p2, 3), N)
        b2 == vorrq_u16(t2, vshlq_n_u16(vandq_u16(vshrq_n_u16(p2, 6), R), 2))
        b5 == vorrq_u16(t5, vshlq_n_u16(vandq_u16(vshrq_n_u16(p2, 7), R), 2))
    IN Kernel(StoreAll(output, 0, <<r0, r1, b2, r3, r4, b5, r6, r7>>),
              ptr + BlockLen(3))

\* a mutation of Decode4: the low nibble is stored without its mask
Sub4Unmasked(output, at, input, ptr) ==
    LET p == Load8(input, ptr)
    IN StoreAll(output, at, <<p, vshrq_n_u16(p, 4)>>)

\* the lambda sub of Decode4
Sub4(output, at, input, ptr) ==
    LET p == Load8(input, ptr)
        M == vdupq_n_u16(15)
    IN StoreAll(output, at, <<vandq_u16(p, M), vandq_u16(vshrq_n_u16(p, 4), M)>>)

RECURSIVE Loop4(_, _, _, _)
Loop4(output, input, ptr, i) ==
    IF i = 4 THEN output
    ELSE Loop4(Sub4(output, i * 16, input, ptr + i * 8), input, ptr, i + 1)

Decode4(output, input, ptr) ==
    Kernel(Loop4(output, input, ptr, 0), ptr + BlockLen(4))

Decode5(output, input, ptr) ==
    LET N == vdupq_n_u16(31)
        L == vdupq_n_u16(7)
        U == vdupq_n_u16(3)
        F == vdupq_n_u16(1)
        p0 == Load8(input, ptr)
        p1 == Load8(input, ptr + 8)
        p2 == Load8(input, ptr + 16)
        p3 == Load8(input, ptr + 24)
        p4 == Load8(input, ptr + 32)
        r0 == vandq_u16(p0, N)
        r1 == vandq_u16(p1, N)
        r2 == vandq_u16(p2, N)
        r3 == vandq_u16(p3, N)
        r4 == vandq_u16(p4, N)
        r5 == vorrq_u16(vandq_u16(vshrq_n_u16(p0, 5), L),
                        vshlq_n_u16(vandq_u16(vshrq_n_u16(p3, 5), U), 3))
        r6 == vorrq_u16(vandq_u16(vshrq_n_u16(p1, 5), L),
                        vshlq_n_u16(vandq_u16(vshrq_n_u16(p4, 5), U), 3))
        tmp == vandq_u16(vshrq_n_u16(p2, 5), L)
        r7 == vorrq_u16(
                  vorrq_u16(tmp, vshlq_n_u16(vandq_u16(vshrq_n_u16(p3, 7), F), 3)),
                  vshlq_n_u16(vandq_u16(vshrq_n_u16(p4, 7), F), 4))
    IN Kernel(StoreAll(output, 0, <<r0, r1, r2, r3, r4, r5, r6, r7>>),
              ptr + BlockLen(5))

Decode6(output, input, ptr) ==
    LET N == vdupq_n_u16(63)
        L == vdupq_n_u16(3)
        p == [k \in 1..6 |-> Load8(input, ptr + 8 * (k - 1))]
        hi(k) == vandq_u16(vshrq_n_u16(p[k], 6), L)
        r6 == vorrq_u16(vorrq_u16(hi(1), vshlq_n_u16(hi(2), 2)), vshlq_n_u16(hi(3), 4))
        r7 == vorrq_u16(vorrq_u16(hi(4), vshlq_n_u16(hi(5), 2)), vshlq_n_u16(hi(6), 4))
    IN Kernel(StoreAll(output, 0,
                       [k \in 1..6 |-> vandq_u16(p[k], N)] \o <<r6, r7>>),
              ptr + BlockLen(6))

\* bits = 7 or 8: raw 8-bit
Decode8(output, input, ptr) ==
    Kernel(StoreAll(output, 0, [k \in 1..8 |-> Load8(input, ptr + 8 * (k - 1))]),
           ptr + BlockLen(8))

\* a mutation of Decode10: the high bits of all four lanes are taken from the
\* lowest two bits of the high-bit byte
Decode10OneShift(output, input, ptr) ==
    LET p == [k \in 1..10 |-> Load8(input, ptr + 8 * (k - 1))]
        N == vdupq_n_u16(255)
        L == vdupq_n_u16(3)
        join(lo, hi, s) ==
            vorrq_u16(vandq_u16(lo, N), vshlq_n_u16(vandq_u16(hi, L), 8))
    IN Kernel(StoreAll(output, 0,
                       <<join(p[1], p[5], 0), join(p[2], p[5], 2),
                         join(p[3], p[5], 4), join(p[4], p[5], 6),
                         join(p[6], p[10], 0), join(p[7], p[10], 2),
                         join(p[8], p[10], 4), join(p[9], p[10], 6)>>),
              ptr + BlockLen(10))

\* bits = 9 or 10: the low bytes of thirty-two values, then their high bits
Decode10(output, input, ptr) ==
    LET p == [k \in 1..10 |-> Load8(input, ptr + 8 * (k - 1))]
        N == vdupq_n_u16(255)
        L == vdupq_n_u16(3)
        \* r = lo | ((hi & (L << s)) << (8 - s))
        join(lo, hi, s) ==
            vorrq_u16(vandq_u16(lo, N),
                      vshlq_n_u16(vandq_u16(hi, vshlq_n_u16(L, s)), 8 - s))
    IN Kernel(StoreAll(output, 0,
                       <<join(p[1], p[5], 0), join(p[2], p[5], 2),
                         join(p[3], p[5], 4), join(p[4], p[5], 6),
                         join(p[6], p[10], 0), join(p[7], p[10], 2),
                         join(p[8], p[10], 4), join(p[9], p[10], 6)>>),
              ptr + BlockLen(10))

\* vld1q_u16(in16 + at): eight little-endian uint16_t
Load16(input, ptr, at) ==
    [j \in Lanes |-> input[ptr + 2 * (at + j - 1) + 1]
                       + 256 * input[ptr + 2 * (at + j - 1) + 2]]

\* bits = 16: raw 16-bit
Decode16(output, input, ptr) ==
    Kernel(StoreAll(output, 0, [k \in 1..8 |-> Load16(input, ptr, 8 * (k - 1))]),
           ptr + BlockLen(16))

\* a mutation of the dispatch table: width 7 is served by the 6-bit kernel
decodeTableNarrow ==
    <<"Decode0", "Decode1", "Decode2", "Decode3", "Decode4", "Decode5", "Decode6",
      "Decode6", "Decode8", "Decode10", "Decode10", "Decode16", "Decode16",
      "Decode16", "Decode16", "Decode16", "Decode16">>

\* static DecodeFn const decodeTable[17], indexed by bits (0-based)
decodeTable ==
    <<"Decode0", "Decode1", "Decode2", "Decode3", "Decode4", "Decode5", "Decode6",
      "Decode8", "Decode8", "Decode10", "Decode10", "Decode16", "Decode16",
      "Decode16", "Decode16", "Decode16", "Decode16">>

\* decodeTable[bits](output, ptr)
CallDecodeFn(fn, output, input, ptr) ==
    CASE fn = "Decode0" -> Decode0(output, input, ptr)
      [] fn = "Decode1" -> Decode1(output, input, ptr)
      [] fn = "Decode2" -> Decode2(output, input, ptr)
      [] fn = "Decode3" -> Decode3(output, input, ptr)
      [] fn = "Decode4" -> Decode4(output, input, ptr)
      [] fn = "Decode5" -> Decode5(output, input, ptr)
      [] fn = "Decode6" -> Decode6(output, input, ptr)
      [] fn = "Decode8" -> Decode8(output, input, ptr)
      [] fn = "Decode10" -> Decode10(output, input, ptr)
      [] fn = "Decode16" -> Decode16(output, input, ptr)

\* return ptr - (input + offset)
Consumed(k, offset) == [output |-> k.output, consumed |-> k.next - offset]

\* DecodeBlock(output, bits, input, offset, len): the output array afterwards
\* and the size_t returned. Behind the guard the value is len - offset in
\* size_t; every caller adds it to offset, which yields len. With offset
\* above len the subtraction wraps: a negative consumed stands for the size_t
\* value 2^64 + consumed.
DecodeBlock(output, bits, input, offset, len) ==
    IF offset + BlockLen(bits) > len
    THEN [output |-> output, consumed |-> len - offset]
    ELSE Consumed(CallDecodeFn(decodeTable[bits + 1], output, input, offset), offset)

\* the size_t value v stands for is at most n
SizeAtMost(v, n) == 0 <= v /\ v <= n

\* ------------------------------------------------------------ frame decoder

\* input[k] for a 0-based k; a read behind the end of the buffer yields
\* whatever byte lies there
InByte(input, k, stray) == IF k < Len(input) THEN input[k + 1] ELSE stray

\* uint32_t(in[0]) | uint32_t(in[1]) << 8 | uint32_t(in[2]) << 16 | uint32_t(in[3]) << 24
ReadU32(input, k, stray) ==
    InByte(input, k, stray) + 256 * InByte(input, k + 1, stray)
        + 65536 * InByte(input, k + 2, stray) + 16777216 * InByte(input, k + 3, stray)

ReadMetadataHeader(input, stray) ==
    [w |-> ReadU32(input, 0, stray), h |-> ReadU32(input, 4, stray),
     bitsOff |-> ReadU32(input, 8, stray), refsOff |-> ReadU32(input, 12, stray)]

\* a mutation of the reference addition: the reference is or-ed in
AddReferenceOr(r, ref, at) ==
    [values |-> [j \in 1..ENCODING_BLOCK |-> BitOr(r.output[j], ref)],
     offset |-> at + r.consumed, consumed |-> r.consumed]

\* DecodeMetadata, one block: r is what DecodeBlock handed back for the block
\* at offset at; the reference is added to its 64 values
AddReference(r, ref, at) ==
    [values |-> [j \in 1..ENCODING_BLOCK |-> (r.output[j] + ref) % WordMod],
     offset |-> at + r.consumed, consumed |-> r.consumed]

\* a mutation of the block header: the bit-width is taken from three bits of
\* the high nibble
MetadataBlockNarrow(input, offset, len, num, i, stray) ==
    LET bits == (InByte(input, offset, stray.byte) \div 16) % 8
        ref == (InByte(input, offset, stray.byte) % 16) * 256
                   + InByte(input, offset + 1, stray.byte)
        at == offset + HEADER_LENGTH
        before == [j \in 1..ENCODING_BLOCK |-> IF i + j <= num THEN 0 ELSE stray.word]
    IN [block |-> AddReference(DecodeBlock(before, bits, input, at, len), ref, at),
        under |-> at + BlockLen(bits) > len,
        over |-> offset + 1 >= len,
        bits |-> bits]

\* DecodeMetadata, the loop over the blocks from block i on: data holds the
\* values stored from out.data() on, seen.under tells whether a DecodeBlock
\* call took the guard's branch, seen.over whether a byte of the count or of
\* a block header was read at an index not below len, seen.far whether a
\* DecodeBlock call returned more than ENCODING_BLOCK_LEN[bits]
RECURSIVE MetadataBlocks(_, _, _, _, _, _, _, _)
MetadataBlock(input, offset, len, num, i, stray) ==
    LET bits == (InByte(input, offset, stray.byte) \div 16) % 16
        ref == (InByte(input, offset, stray.byte) % 16) * 256
                   + InByte(input, offset + 1, stray.byte)
        at == offset + HEADER_LENGTH
        \* out.resize(num) zero-fills the vector; behind its end lies
        \* memory of the heap
        before == [j \in 1..ENCODING_BLOCK |-> IF i + j <= num THEN 0 ELSE stray.word]
    IN [block |-> AddReference(DecodeBlock(before, bits, input, at, len), ref, at),
        under |-> at + BlockLen(bits) > len,
        over |-> offset + 1 >= len,
        bits |-> bits]

MetadataNext(input, len, num, i, data, seen, stray, b) ==
    MetadataBlocks(input, b.block.offset, len, num, i + ENCODING_BLOCK,
                   data \o b.block.values,
                   [under |-> seen.under \/ b.under, over |-> seen.over \/ b.over,
                    far |-> seen.far \/ ~SizeAtMost(b.block.consumed, BlockLen(b.bits))],
                   stray)

MetadataBlocks(input, offset, len, num, i, data, seen, stray) ==
    IF i >= num
    THEN [data |-> data, offset |-> offset, under |-> seen.under, over |-> seen.over,
          far |-> seen.far]
    ELSE MetadataNext(input, len, num, i, data, seen, stray,
                      MetadataBlock(input, offset, len, num, i, stray))

\* the vector out, the number of values stored from out.data() on, and the
\* offset returned
MetadataResult(num, r) ==
    [out |-> SubSeq(r.data, 1, num), stored |-> Len(r.data),
     offset |-> r.offset, under |-> r.under, over |-> r.over, far |-> r.far]

\* DecodeMetadata(input, offset, len, out)
DecodeMetadata(input, offset, len, stray) ==
    MetadataResult(ReadU32(input, offset, stray.byte),
                   MetadataBlocks(input, offset + 4, len,
                                  ReadU32(input, offset, stray.byte), 0, <<>>,
                                  [under |-> FALSE, over |-> offset + 3 >= len,
                                   far |-> FALSE],
                                  stray))

\* bits[i], refs[i] of a std::vector; an index behind its end reads the heap
VecAt(v, i, stray) == IF i < Len(v) THEN v[i + 1] ELSE stray.word

\* a mutation of the interleave: the back halves of the blocks go to row1 and
\* row3 instead of row2 and row3
InterleaveByPairs(rows, x, p, r) ==
    LET src(n, xi) ==
            LET i == xi - x
                blk == IF n \in {1, 2} THEN (IF i % 2 = 0 THEN 1 ELSE 2)
                       ELSE (IF i % 2 = 0 THEN 3 ELSE 4)
                half == IF n \in {1, 3} THEN 0 ELSE ENCODING_BLOCK \div 2
            IN (p[blk][half + (i \div 2) + 1] + r[blk]) % WordMod
    IN [n \in 1..4 |->
          [c \in 1..Len(rows[n]) |->
              IF x < c /\ c <= x + ENCODING_BLOCK THEN src(n, c - 1) ELSE rows[n][c]]]

\* the interleave loop of one block column: rows[1..4] are row0..row3
Interleave(rows, x, p, r) ==
    LET src(n, xi) ==
            LET i == xi - x
                blk == IF n \in {1, 3} THEN (IF i % 2 = 0 THEN 1 ELSE 2)
                       ELSE (IF i % 2 = 0 THEN 3 ELSE 4)
                half == IF n \in {1, 2} THEN 0 ELSE ENCODING_BLOCK \div 2
            IN (p[blk][half + (i \div 2) + 1] + r[blk]) % WordMod
    IN [n \in 1..4 |->
          [c \in 1..Len(rows[n]) |->
              IF x < c /\ c <= x + ENCODING_BLOCK THEN src(n, c - 1) ELSE rows[n][c]]]

\* the four DecodeBlock calls of one block column, from block k on
RECURSIVE FourBlocks(_, _, _, _, _, _, _)
BlockDone(p, b, input, offset, len, seen, k, r) ==
    FourBlocks([p EXCEPT ![k] = r.output], b, input, offset + r.consumed, len,
               [under |-> seen.under \/ offset + BlockLen(b[k]) > len,
                far |-> seen.far \/ ~SizeAtMost(r.consumed, BlockLen(b[k]))],
               k + 1)

FourBlocks(p, b, input, offset, len, seen, k) ==
    IF k > 4
    THEN [p |-> p, offset |-> offset, under |-> seen.under, far |-> seen.far,
          wild |-> FALSE]
    ELSE IF b[k] > 16
    THEN [p |-> p, offset |-> offset, under |-> seen.under, far |-> seen.far,
          wild |-> TRUE]
    ELSE BlockDone(p, b, input, offset, len, seen, k,
                   DecodeBlock(p[k], b[k], input, offset, len))

\* Decode, the body of the loop over x after the four DecodeBlock calls
ColumnDone(c, x, four, r) ==
    [c EXCEPT !.p = four.p,
              !.offset = four.offset,
              !.under = four.under,
              !.far = four.far,
              !.wild = four.wild,
              !.outside = @ \/ c.metaIdx + 3 >= Len(c.bits)
                            \/ c.metaIdx + 3 >= Len(c.refs),
              !.rows = IF four.wild THEN @ ELSE Interleave(@, x, four.p, r),
              !.metaIdx = @ + 4]

\* Decode, the loop over x of one row-quad. c holds the locals of Decode.
RECURSIVE Columns(_, _)
Columns(c, x) ==
    IF x >= c.encW \/ c.wild
    THEN c
    ELSE Columns(ColumnDone(c, x,
                            FourBlocks(c.p,
                                       [k \in 1..4 |->
                                           VecAt(c.bits, c.metaIdx + k - 1, c.stray)],
                                       c.input, c.offset, c.len,
                                       [under |-> c.under, far |-> c.far], 1),
                            [k \in 1..4 |-> VecAt(c.refs, c.metaIdx + k - 1, c.stray)]),
                 x + ENCODING_BLOCK)

\* the four memcpy of width samples to output
CopyRows(out, rows, width) ==
    out \o SubSeq(rows[1], 1, width) \o SubSeq(rows[2], 1, width)
        \o SubSeq(rows[3], 1, width) \o SubSeq(rows[4], 1, width)

\* ------------------------------------------------------------ reference packing

\* The encoder is not part of the sources; the packing of one block of 64
\* values at bit-width b follows the layout the format description gives:
\* lane k, byte j holds output[8k + j].
Bits(x, lo, n) == (x \div 2^lo) % 2^n
Val(v, o) == v[o + 1]

\* eight values per byte-group, lane k at bit k * w of byte j
PackLanes(v, first, lanes, w, lo, n) ==
    [j \in 1..8 |-> LET byte(k) == Bits(Val(v, first + 8 * k + j - 1), lo, n) * 2^(k * w)
                    IN IF lanes = 1 THEN byte(0)
                       ELSE IF lanes = 2 THEN byte(0) + byte(1)
                       ELSE IF lanes = 4 THEN byte(0) + byte(1) + byte(2) + byte(3)
                       ELSE byte(0) + byte(1) + byte(2) + byte(3)
                            + byte(4) + byte(5) + byte(6) + byte(7)]

Pack1(v) == PackLanes(v, 0, 8, 1, 0, 1)
Pack2(v) == PackLanes(v, 0, 4, 2, 0, 2) \o PackLanes(v, 32, 4, 2, 0, 2)
Pack3(v) ==
    LET low(f) == [j \in 1..8 |-> (Val(v, f + j - 1) % 8) + (Val(v, f + 8 + j - 1) % 8) * 8
                                   + (Val(v, f + 16 + j - 1) % 4) * 64]
    IN low(0) \o low(24)
       \o [j \in 1..8 |-> (Val(v, 48 + j - 1) % 8) + (Val(v, 56 + j - 1) % 8) * 8
                           + Bits(Val(v, 16 + j - 1), 2, 1) * 64
                           + Bits(Val(v, 40 + j - 1), 2, 1) * 128]
Pack4(v) ==
    PackLanes(v, 0, 2, 4, 0, 4) \o PackLanes(v, 16, 2, 4, 0, 4)
        \o PackLanes(v, 32, 2, 4, 0, 4) \o PackLanes(v, 48, 2, 4, 0, 4)
Pack5(v) ==
    LET g(f, h, lo, n, x, t) ==
            [j \in 1..8 |-> (Val(v, f + j - 1) % 32) + Bits(Val(v, h + j - 1), lo, n) * 32
                             + Bits(Val(v, 56 + j - 1), x, t) * 128]
    IN g(0, 40, 0, 3, 0, 0) \o g(8, 48, 0, 3, 0, 0) \o g(16, 56, 0, 3, 0, 0)
       \o g(24, 40, 3, 2, 3, 1) \o g(32, 48, 3, 2, 4, 1)
Pack6(v) ==
    LET g(f, h, lo) ==
            [j \in 1..8 |-> (Val(v, f + j - 1) % 64) + Bits(Val(v, h + j - 1), lo, 2) * 64]
    IN g(0, 48, 0) \o g(8, 48, 2) \o g(16, 48, 4)
       \o g(24, 56, 0) \o g(32, 56, 2) \o g(40, 56, 4)
Pack8(v) == [n \in 1..64 |-> v[n] % 256]
Pack10(v) ==
    LET half(f) == [n \in 1..32 |-> (Val(v, f + n - 1) % 256)]
                       \o PackLanes(v, f, 4, 2, 8, 2)
    IN half(0) \o half(32)
\* b = 11..15: the low bytes as for 9/10, then b - 8 groups of eight bytes,
\* one for each high bit, and zeros up to the block length
PackSplit(b, v) ==
    LET groups == [n \in 1..(8 * (b - 8)) |->
                      PackLanes(v, 0, 8, 1, 8 + (n - 1) \div 8, 1)[((n - 1) % 8) + 1]]
        body == Pack8(v) \o groups
    IN body \o [n \in 1..(BlockLen(b) - Len(body)) |-> 0]
Pack16(v) == [n \in 1..128 |-> Bits(Val(v, (n - 1) \div 2), 8 * ((n - 1) % 2), 8)]

\* the packing of a block at bit-width b, 0 <= b <= 16
EncodeBlock(b, v) ==
    CASE b = 0 -> <<>>
      [] b = 1 -> Pack1(v)
      [] b = 2 -> Pack2(v)
      [] b = 3 -> Pack3(v)
      [] b = 4 -> Pack4(v)
      [] b = 5 -> Pack5(v)
      [] b = 6 -> Pack6(v)
      [] b \in {7, 8} -> Pack8(v)
      [] b \in {9, 10} -> Pack10(v)
      [] b \in 11..15 -> PackSplit(b, v)
      [] b = 16 -> Pack16(v)

\* ------------------------------------------------------------ state

VARIABLES
    dir,        \* the .mcraw files of the executable's directory, by base name
    scanned,    \* the files the scan loop has processed
    contexts,   \* static std::map<std::string, FSContext> contexts
    pc,         \* "scan", "serving" (inside fuse_main) or "exit"
    last,       \* the last FUSE callback: its arguments and what it returned
    hist,       \* per capture, the names inserted into its cache, oldest first
    codec,      \* the call of the raw codec in progress: its arguments and locals
    threads     \* the callbacks in progress, by the thread of the FUSE loop that runs them

vars == <<dir, scanned, contexts, pc, last, hist, codec, threads>>

\* the callbacks are followed as a whole, not thread by thread
NoThreads == <<>>

\* no codec call is in progress
NoCodec == [mode |-> "none"]

NoCall ==
    [op |-> "none", path |-> <<>>, flags |-> 0, size |-> 0, offset |-> 0,
     rc |-> 0, st |-> ZeroStat, buf |-> <<>>, entries |-> <<>>, calls |-> <<>>]

\* the record of an insert: load_frame returned 0 after calling loadFrame
Inserted(lf) == lf.rc = 0 /\ lf.calls # <<>>

\* ------------------------------------------------------------ inputs

FilePath(base, name) == <<Slash>> \o base \o <<Slash>> \o name
DirPath(base) == <<Slash>> \o base

\* the names a client asks for: every frame name of the directory and the
\* one past each capture's last frame, every WAV name, and names no capture has
ListedOrNext(d) ==
    UNION {{frameName(b, i) : i \in 0..Len(d[b].frames)} : b \in DOMAIN d}
OtherNames == {<<"j">>, <<"j", Slash, "j">>, <<>>}
InputNames(d) == ListedOrNext(d) \cup {AudioName(b) : b \in DOMAIN d} \cup OtherNames
\* every name under each base of the directory, and an unlisted base x with a
\* listed frame name, a WAV name and a name no capture has
InputPaths(d) ==
    {RootPath} \cup {DirPath(b) : b \in DOMAIN d} \cup {DirPath(BaseX)}
        \cup {FilePath(b, n) : b \in DOMAIN d, n \in InputNames(d)}
        \cup {FilePath(BaseX, n) : n \in {frameName(BaseA, 0), AudioName(BaseX), <<"j">>}}

Offsets == 0..MaxOffset
Sizes == 0..MaxSize
Flags == 0..MaxFlags

\* ------------------------------------------------------------ actions

InitIn(dirs) ==
    /\ dir \in dirs
    /\ scanned = {}
    /\ contexts = <<>>
    /\ pc = "scan"
    /\ last = NoCall
    /\ hist = [b \in DOMAIN dir |-> <<>>]
    /\ codec = NoCodec
    /\ threads = NoThreads

Init == InitIn(Directories)
InitLarge == InitIn(LargeDirectories)

\* main: one iteration of the scan loop on a file whose Decoder cannot be
\* constructed (continue)
ScanCorrupt(f) ==
    /\ pc = "scan"
    /\ f \in (DOMAIN dir) \ scanned
    /\ dir[f].corrupt
    /\ scanned' = scanned \cup {f}
    /\ UNCHANGED <<threads, codec, dir, contexts, pc, last, hist>>

\* main: one iteration of the scan loop that ends in contexts.emplace
ScanMount(f, outcome) ==
    /\ pc = "scan"
    /\ f \in (DOMAIN dir) \ scanned
    /\ ~dir[f].corrupt
    /\ LET named == FillNames(cache_container_metadata(NewContext(f, dir[f])))
           warm == WarmUp(named, outcome)
           ctx == LoadAudio(warm.ctx)
       IN /\ contexts' = [b \in (DOMAIN contexts) \cup {f} |->
                             IF b = f THEN ctx ELSE contexts[b]]
          /\ hist' = [hist EXCEPT ![f] =
                         IF Inserted(warm) THEN Append(@, named.filenames[1]) ELSE @]
    /\ scanned' = scanned \cup {f}
    /\ UNCHANGED <<threads, codec, dir, pc, last>>

\* main after the scan: no capture was mounted (return 1)
NoCaptures ==
    /\ pc = "scan"
    /\ scanned = DOMAIN dir
    /\ DOMAIN contexts = {}
    /\ pc' = "exit"
    /\ UNCHANGED <<threads, codec, dir, scanned, contexts, last, hist>>

\* main after the scan: fuse_main starts serving callbacks
FuseMain ==
    /\ pc = "scan"
    /\ scanned = DOMAIN dir
    /\ DOMAIN contexts # {}
    /\ pc' = "serving"
    /\ UNCHANGED <<threads, codec, dir, scanned, contexts, last, hist>>

\* the FUSE loop is waiting for a request
Idle == pc = "serving" /\ last.op = "none"

GetattrCall(p) ==
    /\ LET r == fs_getattr(contexts, p) IN
       last' = [NoCall EXCEPT !.op = "getattr", !.path = p, !.rc = r.rc, !.st = r.st]
    /\ UNCHANGED <<threads, codec, dir, scanned, contexts, pc, hist>>

ReaddirCall(p) ==
    /\ LET r == fs_readdir(contexts, p) IN
       last' = [NoCall EXCEPT !.op = "readdir", !.path = p, !.rc = r.rc,
                              !.entries = r.entries]
    /\ UNCHANGED <<threads, codec, dir, scanned, contexts, pc, hist>>

OpenCall(p, flags) ==
    /\ last' = [NoCall EXCEPT !.op = "open", !.path = p, !.flags = flags,
                              !.rc = fs_open(contexts, p, flags)]
    /\ UNCHANGED <<threads, codec, dir, scanned, contexts, pc, hist>>

\* the capture and file name fs_read resolves a path to
ReadBase(p) == SubstrTo(SubstrFrom(p, 1), FindSlash(SubstrFrom(p, 1)))
ReadName(p) == SubstrFrom(SubstrFrom(p, 1), FindSlash(SubstrFrom(p, 1)) + 1)

ReadCall(p, size, offset, outcome) ==
    /\ LET r == fs_read(contexts, p, size, offset, outcome)
           ins == r.rc >= 0 /\ r.calls # <<>>
       IN /\ contexts' = r.ctxs
          /\ last' = [NoCall EXCEPT !.op = "read", !.path = p, !.size = size,
                                    !.offset = offset, !.rc = r.rc, !.buf = r.buf,
                                    !.calls = r.calls]
          /\ hist' = IF ins
                     THEN [hist EXCEPT ![ReadBase(p)] = Append(@, ReadName(p))]
                     ELSE hist
          /\ ins => Len(hist[ReadBase(p)]) < MaxInserts
    /\ UNCHANGED <<threads, codec, dir, scanned, pc>>

\* the four callbacks, each on any path a client may ask for
Getattr == Idle /\ \E p \in InputPaths(dir) : GetattrCall(p)

Readdir == Idle /\ \E p \in InputPaths(dir) : ReaddirCall(p)

Open == Idle /\ \E p \in InputPaths(dir), flags \in Flags : OpenCall(p, flags)

Read ==
    Idle /\ \E p \in InputPaths(dir), size \in Sizes, offset \in Offsets,
               outcome \in Outcomes : ReadCall(p, size, offset, outcome)

\* fs_open for reading or for writing
OpenFile ==
    Idle /\ \E p \in InputPaths(dir), flags \in {O_RDONLY, O_RDONLY + 1} :
               OpenCall(p, flags)

\* fs_read of a file from offset 0 with the largest request size
ReadFile ==
    Idle /\ \E p \in InputPaths(dir), outcome \in Outcomes :
               ReadCall(p, MaxSize, 0, outcome)

\* fuse_main returns (unmount): main returns and the process's contexts are
\* destroyed
Unmount ==
    /\ pc = "serving"
    /\ last.op = "none"
    /\ pc' = "exit"
    /\ contexts' = <<>>
    /\ last' = NoCall
    /\ hist' = [b \in DOMAIN dir |-> <<>>]
    /\ UNCHANGED <<threads, codec, dir, scanned>>

\* the FUSE loop (single-threaded, -s) sends the reply and waits for the
\* next request
Reply ==
    /\ pc = "serving"
    /\ last.op # "none"
    /\ last' = NoCall
    /\ UNCHANGED <<threads, codec, dir, scanned, contexts, pc, hist>>

\* the mounter on a directory of small captures, with every request
Next ==
    \/ \E f \in DOMAIN dir : ScanCorrupt(f)
    \/ \E f \in DOMAIN dir, outcome \in Outcomes : ScanMount(f, outcome)
    \/ NoCaptures
    \/ FuseMain
    \/ Getattr
    \/ Readdir
    \/ Open
    \/ Read
    \/ Reply
    \/ Unmount

Spec == Init /\ [][Next]_vars

\* the mounter on one capture larger than the cache, each file read from
\* offset 0
NextLarge ==
    \/ \E f \in DOMAIN dir : ScanCorrupt(f)
    \/ \E f \in DOMAIN dir, outcome \in Outcomes : ScanMount(f, outcome)
    \/ NoCaptures
    \/ FuseMain
    \/ Getattr
    \/ Readdir
    \/ OpenFile
    \/ ReadFile
    \/ Reply
    \/ Unmount

SpecLarge == InitLarge /\ [][NextLarge]_vars

\* ------------------------------------------------------------ thread by thread

\* threads the FUSE loop may run callbacks on
NumThreads == 2

\* a mutation of main: fuse_main is started without -s
fuse_argv_mt == <<"-f", "-o">>

\* main: the options handed to fuse_main (foreground, single-threaded, mount
\* options)
fuse_argv == <<"-f", "-s", "-o">>

\* fuse_main with -s runs its loop on one thread: a request is taken up when
\* the callback before it has returned; without -s every request gets a
\* thread of its own
SingleThreaded == \E k \in 1..Len(fuse_argv) : fuse_argv[k] = "-s"

\* a thread of the loop with no callback to run
IdleThread ==
    [pc |-> "idle", op |-> "none", base |-> <<>>, fname |-> <<>>, ts |-> 0,
     blob |-> <<>>, rc |-> 0, buf |-> <<>>]

\* a mutation of the loop: a request is handed to any thread that is free
MayDispatchAny(t) == threads[t].pc = "idle"

\* the loop hands a request to thread t
MayDispatch(t) ==
    /\ threads[t].pc = "idle"
    /\ SingleThreaded => \A u \in DOMAIN threads : threads[u].pc = "idle"

Returns(t, rc, buf) ==
    threads' = [threads EXCEPT ![t].pc = "return", ![t].rc = rc, ![t].buf = buf]

FsOnly == UNCHANGED <<dir, scanned, pc, last, hist, codec>>

\* one capture larger than the cache, with audio
ThreadDirectory ==
    (BaseA :> [frames |-> FramesOf(BigFrames, BigFrames), corrupt |-> FALSE,
               wav |-> WavBytes(AudioLen), audioThrows |-> FALSE,
               orientation |-> <<>>])

InitThreads ==
    /\ dir = ThreadDirectory
    /\ scanned = {}
    /\ contexts = <<>>
    /\ pc = "scan"
    /\ last = NoCall
    /\ hist = [b \in DOMAIN dir |-> <<>>]
    /\ codec = NoCodec
    /\ threads = [t \in 1..NumThreads |-> IdleThread]

\* fs_getattr on thread t
GetattrEnter(t, p) ==
    /\ pc = "serving"
    /\ MayDispatch(t)
    /\ threads' = [threads EXCEPT ![t].pc = "return", ![t].op = "getattr",
                                  ![t].rc = fs_getattr(contexts, p).rc]
    /\ UNCHANGED contexts
    /\ FsOnly

\* fs_read on thread t, up to the call of load_frame: the path is split and
\* the capture looked up; the WAV is copied from the audio buffer
ReadEnter(t, p, size, offset) ==
    /\ pc = "serving"
    /\ MayDispatch(t)
    /\ LET rest == SubstrFrom(p, 1)
           slash == FindSlash(rest)
           base == SubstrTo(rest, slash)
           fname == SubstrFrom(rest, slash + 1)
       IN threads' =
           IF slash = -1
           THEN [threads EXCEPT ![t].pc = "return", ![t].op = "read", ![t].rc = -EISDIR]
           ELSE IF base \notin DOMAIN contexts
           THEN [threads EXCEPT ![t].pc = "return", ![t].op = "read", ![t].rc = -ENOENT]
           ELSE IF fname = AudioName(contexts[base].baseName)
           THEN LET n == ToCopy(size, contexts[base].audioSize, offset) IN
                [threads EXCEPT ![t].pc = "return", ![t].op = "read", ![t].rc = n,
                                ![t].buf = CopyOut(contexts[base].audioWavData, offset, n)]
           ELSE [threads EXCEPT ![t].pc = "lookup", ![t].op = "read",
                                ![t].base = base, ![t].fname = fname,
                                ![t].rc = size, ![t].ts = offset]
    /\ UNCHANGED contexts
    /\ FsOnly

At(t, where) == pc = "serving" /\ threads[t].pc = where

\* load_frame: the fast path on a cached name, else the search of filenames
\* and the call of decoder->loadFrame
LoadFrameLookup(t) ==
    /\ At(t, "lookup")
    /\ LET ctx == contexts[threads[t].base]
           idx == FindIndex(ctx.filenames, threads[t].fname)
       IN threads' =
           IF threads[t].fname \in CacheKeys(ctx)
           THEN [threads EXCEPT ![t].pc = "find"]
           ELSE IF idx < 0
           THEN [threads EXCEPT ![t].pc = "return", ![t].rc = -ENOENT]
           ELSE [threads EXCEPT ![t].pc = "decoding", ![t].blob = <<ctx.frameList[idx + 1]>>]
    /\ UNCHANGED contexts
    /\ FsOnly

\* decoder->loadFrame returns or throws, and the DNG is written to the string
\* stream or WriteToFile fails
LoadFrameDecoded(t, outcome) ==
    /\ At(t, "decoding")
    /\ threads' =
           IF outcome = "throw" \/ outcome = "packfail"
           THEN [threads EXCEPT ![t].pc = "return", ![t].rc = -EIO, ![t].blob = <<>>]
           ELSE [threads EXCEPT ![t].pc = "evict",
                    ![t].blob = PackDng(DecoderLoadFrame(contexts[threads[t].base].decoder,
                                                         threads[t].blob[1]))]
    /\ UNCHANGED contexts
    /\ FsOnly

\* load_frame: if (frameCache.size() >= MAX_CACHE_FRAMES)
\*                 frameCache.erase(frameCacheOrder.front())
EvictErase(t) ==
    /\ At(t, "evict")
    /\ LET ctx == contexts[threads[t].base] IN
       IF Cardinality(CacheKeys(ctx)) >= MAX_CACHE_FRAMES /\ ctx.frameCacheOrder # <<>>
       THEN /\ contexts' = [contexts EXCEPT ![threads[t].base].frameCache =
                               CacheErase(@, Head(ctx.frameCacheOrder))]
            /\ threads' = [threads EXCEPT ![t].pc = "pop"]
       ELSE /\ contexts' = contexts
            /\ threads' = [threads EXCEPT ![t].pc = "put"]
    /\ FsOnly

\* load_frame: frameCacheOrder.pop_front()
EvictPop(t) ==
    /\ At(t, "pop")
    /\ contexts' = [contexts EXCEPT ![threads[t].base].frameCacheOrder =
                       IF @ = <<>> THEN @ ELSE Tail(@)]
    /\ threads' = [threads EXCEPT ![t].pc = "put"]
    /\ FsOnly

\* a mutation of the insert: a full map is trimmed after the store, and the
\* trim takes the name just stored
CacheStoreThenTrim(t) ==
    /\ At(t, "put")
    /\ contexts' = [contexts EXCEPT ![threads[t].base].frameCache =
                       IF Cardinality(DOMAIN @) + 1 >= MAX_CACHE_FRAMES
                       THEN CacheErase(@, threads[t].fname)
                       ELSE CachePut(@, threads[t].fname, threads[t].blob)]
    /\ threads' = [threads EXCEPT ![t].pc = "push"]
    /\ FsOnly

\* load_frame: frameCache[path] = oss.str()
CacheStore(t) ==
    /\ At(t, "put")
    /\ contexts' = [contexts EXCEPT ![threads[t].base].frameCache =
                       CachePut(@, threads[t].fname, threads[t].blob)]
    /\ threads' = [threads EXCEPT ![t].pc = "push"]
    /\ FsOnly

\* load_frame: frameCacheOrder.push_back(path)
OrderPush(t) ==
    /\ At(t, "push")
    /\ contexts' = [contexts EXCEPT ![threads[t].base].frameCacheOrder =
                       Append(@, threads[t].fname)]
    /\ threads' = [threads EXCEPT ![t].pc = "size"]
    /\ FsOnly

\* load_frame: the frameSize record, and return 0
SizeRecord(t) ==
    /\ At(t, "size")
    /\ contexts' = [contexts EXCEPT ![threads[t].base] =
                       IF threads[t].fname \in CacheKeys(@)
                       THEN RecordFrameSize(@, threads[t].fname) ELSE @]
    /\ threads' = [threads EXCEPT ![t].pc = "find"]
    /\ FsOnly

\* fs_read after load_frame returned 0: frameCache.find(fname) and the copy
ReadCopy(t) ==
    /\ At(t, "find")
    /\ LET ctx == contexts[threads[t].base]
           size == threads[t].rc
           offset == threads[t].ts
       IN IF threads[t].fname \notin CacheKeys(ctx)
          THEN Returns(t, -ENOENT, <<>>)
          ELSE LET data == ctx.frameCache[threads[t].fname]
                   n == ToCopy(size, Len(data), offset)
               IN Returns(t, n, CopyOut(data, offset, n))
    /\ UNCHANGED contexts
    /\ FsOnly

\* the reply is sent and the thread is free again
ThreadReply(t) ==
    /\ At(t, "return")
    /\ threads' = [threads EXCEPT ![t] = IdleThread]
    /\ UNCHANGED contexts
    /\ FsOnly

\* the paths asked for: each frame file, the name past the last one, the WAV
\* and the capture directory
ThreadPaths ==
    {FilePath(BaseA, frameName(BaseA, i)) : i \in 0..BigFrames}
        \cup {FilePath(BaseA, AudioName(BaseA)), DirPath(BaseA)}

Threads == DOMAIN threads

GetattrOnThread == \E t \in Threads, p \in ThreadPaths : GetattrEnter(t, p)
ReadOnThread == \E t \in Threads, p \in ThreadPaths : ReadEnter(t, p, MaxSize, 0)
Lookup == \E t \in Threads : LoadFrameLookup(t)
Decoded == \E t \in Threads, outcome \in Outcomes : LoadFrameDecoded(t, outcome)
Erase == \E t \in Threads : EvictErase(t)
Pop == \E t \in Threads : EvictPop(t)
Store == \E t \in Threads : CacheStore(t)
Push == \E t \in Threads : OrderPush(t)
Size == \E t \in Threads : SizeRecord(t)
Copy == \E t \in Threads : ReadCopy(t)
Replied == \E t \in Threads : ThreadReply(t)

\* the mounter on one capture, each callback followed step by step
NextThreads ==
    \/ \E f \in DOMAIN dir, outcome \in Outcomes : ScanMount(f, outcome)
    \/ FuseMain
    \/ GetattrOnThread
    \/ ReadOnThread
    \/ Lookup
    \/ Decoded
    \/ Erase
    \/ Pop
    \/ Store
    \/ Push
    \/ Size
    \/ Copy
    \/ Replied

SpecThreads == InitThreads /\ [][NextThreads]_vars

\* ------------------------------------------------------------ one block

\* bounds of the block inputs
NumPatterns == 3
PadLen == 3
MaxSlack == 1
GuardLen == 2

\* an element of the output array no store has written
Untouched == -1

\* the blocks decoded: all ones, the ramp v[i] = i, and mixed values, each
\* truncated to b bits
Pattern(k, i) ==
    IF k = 1 THEN WordMod - 1
    ELSE IF k = 2 THEN i
    ELSE (i * (1231 + 6 * k) + 77 * k) % WordMod
BlockValues(k, b) == [n \in 1..ENCODING_BLOCK |-> Pattern(k, n - 1) % 2^b]

\* the bit-width whose kernel decodeTable names for b
FnWidth(fn) ==
    CASE fn = "Decode0" -> 0 [] fn = "Decode1" -> 1 [] fn = "Decode2" -> 2
      [] fn = "Decode3" -> 3 [] fn = "Decode4" -> 4 [] fn = "Decode5" -> 5
      [] fn = "Decode6" -> 6 [] fn = "Decode8" -> 8 [] fn = "Decode10" -> 10
      [] fn = "Decode16" -> 16
KernelWidth(b) == FnWidth(decodeTable[b + 1])

\* the bytes before the block, and the buffer cut or extended by slack bytes
Padding(n) == [k \in 1..n |-> 238]
Resize(bytes, slack) ==
    IF slack < 0
    THEN SubSeq(bytes, 1, IF Len(bytes) + slack < 0 THEN 0 ELSE Len(bytes) + slack)
    ELSE bytes \o [k \in 1..slack |-> 165]

InitBlock ==
    /\ dir = <<>>
    /\ scanned = {}
    /\ contexts = <<>>
    /\ pc = "codec"
    /\ last = NoCall
    /\ hist = <<>>
    /\ threads = NoThreads
    /\ \E bits \in 0..16, k \in 1..NumPatterns, offset \in {0, PadLen} :
          codec = [mode |-> "block", phase |-> "values", bits |-> bits,
                   values |-> BlockValues(k, bits), packedAs |-> -1,
                   input |-> <<>>, offset |-> offset, len |-> 0,
                   output |-> [i \in 1..(ENCODING_BLOCK + GuardLen) |-> Untouched],
                   consumed |-> 0]

\* the encoder packs the block at width w behind the padding
PackBlock(w, slack) ==
    /\ codec.mode = "block"
    /\ codec.phase = "values"
    /\ LET bytes == Resize(Padding(codec.offset) \o EncodeBlock(w, codec.values), slack)
       IN codec' = [codec EXCEPT !.phase = "packed", !.packedAs = w,
                                 !.input = bytes, !.len = Len(bytes)]
    /\ UNCHANGED <<dir, scanned, contexts, pc, last, hist, threads>>

\* a buffer of arbitrary bytes, the block's length long
FillBlock(slack) ==
    /\ codec.mode = "block"
    /\ codec.phase = "values"
    /\ LET bytes == Resize([n \in 1..(codec.offset + BlockLen(codec.bits)) |->
                               (n * 37 + 11 * codec.bits) % 256], slack)
       IN codec' = [codec EXCEPT !.phase = "packed",
                                 !.input = bytes, !.len = Len(bytes)]
    /\ UNCHANGED <<dir, scanned, contexts, pc, last, hist, threads>>

DecodeBlockCall ==
    /\ codec.mode = "block"
    /\ codec.phase = "packed"
    /\ LET r == DecodeBlock(codec.output, codec.bits, codec.input, codec.offset,
                            codec.len)
       IN codec' = [codec EXCEPT !.phase = "decoded", !.output = r.output,
                                 !.consumed = r.consumed]
    /\ UNCHANGED <<dir, scanned, contexts, pc, last, hist, threads>>

Slacks == (0 - MaxSlack)..MaxSlack

PackAsWidth == \E slack \in Slacks : PackBlock(codec.bits, slack)
PackAsKernel == \E slack \in Slacks : PackBlock(KernelWidth(codec.bits), slack)
Fill == \E slack \in Slacks : FillBlock(slack)

NextBlock ==
    \/ PackAsWidth
    \/ PackAsKernel
    \/ Fill
    \/ DecodeBlockCall

SpecBlock == InitBlock /\ [][NextBlock]_vars

\* ------------------------------------------------------------ encoded frames

\* The layout of an encoded frame follows the format description: a header
\* of four little-endian 32-bit words, the payload blocks from byte 16 on,
\* and the two metadata streams at the offsets the header gives.
U32(n) == <<n % 256, (n \div 256) % 256, (n \div 65536) % 256, n \div 16777216>>

Quads(encW, encH) == (encW \div ENCODING_BLOCK) * (encH \div 4)

\* the residues of block k of row-quad position q at width w, and its reference
ResidueBlock(q, k, w) ==
    [n \in 1..ENCODING_BLOCK |-> Pattern(3 + k, n - 1 + q) % 2^w]
RefOf(q, k, base) == (base[k] + q) % 4096

\* the payload from block k of row-quad position q on
RECURSIVE Payload(_, _, _, _)
Payload(q, k, quads, widths) ==
    IF q >= quads THEN <<>>
    ELSE EncodeBlock(widths[k], ResidueBlock(q, k, widths[k]))
            \o (IF k < 4 THEN Payload(q, k + 1, quads, widths)
                ELSE Payload(q + 1, 1, quads, widths))

SeqMin(v) == CHOOSE m \in Range(v) : \A x \in Range(v) : m <= x
SeqMax(v) == CHOOSE m \in Range(v) : \A x \in Range(v) : m >= x

\* one block of a metadata stream: the 2-byte header (bit-width in the high
\* nibble, 15 for raw 16-bit words; 12-bit reference) and the packed residues
StreamWidth(top) == IF top < 32 THEN 5 ELSE IF top < 256 THEN 8 ELSE 16
StreamHeader(w, ref) == <<(IF w = 16 THEN 15 ELSE w) * 16 + ref \div 256, ref % 256>>
PackResidues(full) ==
    StreamHeader(StreamWidth(SeqMax(full)), 0) \o EncodeBlock(StreamWidth(SeqMax(full)), full)
StreamBlock(vals, ref) ==
    LET packed == PackResidues([n \in 1..ENCODING_BLOCK |->
                                   IF n <= Len(vals) THEN vals[n] - ref ELSE 0])
    IN <<packed[1] + ref \div 256, ref % 256>> \o SubSeq(packed, 3, Len(packed))

RECURSIVE StreamBlocks(_)
StreamBlocks(vals) ==
    IF vals = <<>> THEN <<>>
    ELSE StreamBlock(SubSeq(vals, 1, Min(ENCODING_BLOCK, Len(vals))),
                     SeqMin(SubSeq(vals, 1, Min(ENCODING_BLOCK, Len(vals)))) % 4096)
            \o StreamBlocks(SubSeq(vals, Min(ENCODING_BLOCK, Len(vals)) + 1, Len(vals)))

\* a metadata stream: the number of values, then its blocks
EncodeStream(vals) == U32(Len(vals)) \o StreamBlocks(vals)

\* a stream whose count announces one block more than it holds
Overcounted(vals) == U32(Len(vals) + ENCODING_BLOCK) \o StreamBlocks(vals)

\* the entries of the two streams of a frame, in payload order
BitsEntries(quads, widths) == [n \in 1..(4 * quads) |-> widths[((n - 1) % 4) + 1]]
RefsEntries(quads, base) ==
    [n \in 1..(4 * quads) |-> RefOf((n - 1) \div 4, ((n - 1) % 4) + 1, base)]

\* the entries a stream declares: all of them, all of them with zeros up to
\* a whole block, or all but the last row-quad position
Declared(entries, count) ==
    CASE count = "exact" -> entries
      [] count = "padded" ->
            entries \o [n \in 1..((ENCODING_BLOCK - (Len(entries) % ENCODING_BLOCK))
                                    % ENCODING_BLOCK) |-> 0]
      [] count = "short" -> SubSeq(entries, 1, Len(entries) - 4)

\* bit-widths no decoder exists for, as entries of the bits stream
WideBits == <<17, 3, 10, 16>>

\* bounds of the damaged frames
CutLen == 3
BeyondBy == 1

\* the bytes of a frame: header, payload and the two streams, cut to total
Assemble(f, payload, first, second, total) ==
    LET at1 == METADATA_OFFSET + Len(payload)
        at2 == at1 + Len(first)
        bitsAt == IF f.fault = "bitsOff" THEN total + BeyondBy
                  ELSE IF f.order = "bitsFirst" THEN at1 ELSE at2
        refsAt == IF f.fault = "refsOff" THEN total + BeyondBy
                  ELSE IF f.order = "bitsFirst" THEN at2 ELSE at1
        w == IF f.fault = "width" THEN f.encW + 32 ELSE f.encW
    IN SubSeq(U32(w) \o U32(f.encH) \o U32(bitsAt) \o U32(refsAt)
                  \o payload \o first \o second, 1, total)

Ordered(f, payload, bitsS, refsS) ==
    Assemble(f, payload,
             IF f.order = "bitsFirst" THEN bitsS ELSE refsS,
             IF f.order = "bitsFirst" THEN refsS ELSE bitsS,
             METADATA_OFFSET + Len(payload) + Len(bitsS) + Len(refsS)
                 - (IF f.fault = "cut" THEN CutLen ELSE 0))

\* the frame for a case: its dimensions, block widths, references, the
\* counts its streams declare, the order of the streams and the damage done
MakeFrame(f) ==
    Ordered(f,
            Payload(0, 1, Quads(f.encW, f.encH), f.widths),
            EncodeStream(Declared(BitsEntries(Quads(f.encW, f.encH),
                                              IF f.fault = "lie"
                                              THEN <<16, 16, 16, 16>>
                                              ELSE IF f.fault = "wide"
                                              THEN WideBits ELSE f.widths),
                                  f.bitsCount)),
            IF f.fault = "count"
            THEN Overcounted(Declared(RefsEntries(Quads(f.encW, f.encH), f.base),
                                      f.refsCount))
            ELSE EncodeStream(Declared(RefsEntries(Quads(f.encW, f.encH), f.base),
                                       f.refsCount)))

\* ------------------------------------------------------------ one frame

FrameCase(encW, encH, width, height, widths, base, bitsCount, refsCount, order, fault) ==
    [encW |-> encW, encH |-> encH, width |-> width, height |-> height,
     widths |-> widths, base |-> base, bitsCount |-> bitsCount,
     refsCount |-> refsCount, order |-> order, fault |-> fault]

\* requested and encoded dimensions <<encW, encH, width, height>>: equal or
\* cropped on the right; two row-quads of two columns, with fewer rows
\* requested than encoded; sixteen row-quads; wider than encoded
SmallDims == {<<64, 4, 64, 4>>, <<64, 4, 62, 4>>}
WideDims == {<<128, 8, 128, 8>>, <<128, 8, 100, 4>>}
TallDims == {<<64, 64, 62, 64>>}
NarrowDims == {<<64, 4, 65, 4>>}
MixedWidths == <<8, 3, 10, 16>>
WidthSets == {<<0, 0, 0, 0>>, MixedWidths, <<16, 16, 16, 16>>}
LowRefs == <<10, 20, 30, 40>>
HighRefs == <<300, 4095, 1000, 2000>>
RefBases == {LowRefs, <<4095, 0, 4000, 1>>, HighRefs}
Counts == {<<"exact", "exact">>, <<"padded", "padded">>, <<"short", "short">>,
           <<"padded", "short">>, <<"exact", "short">>}
Faults == {"width", "bitsOff", "refsOff", "cut", "lie", "count", "wide"}
Orders == {"bitsFirst", "refsFirst"}

FrameCases ==
    {FrameCase(d[1], d[2], d[3], d[4], ws, base, n[1], n[2], "bitsFirst", "none") :
        d \in SmallDims, ws \in WidthSets, base \in RefBases, n \in Counts}
    \cup {FrameCase(64, 4, 64, 4, ws, LowRefs, "exact", "exact", order, fault) :
        ws \in WidthSets, fault \in Faults, order \in Orders}
    \cup {FrameCase(d[1], d[2], d[3], d[4], MixedWidths, base, n, n, "bitsFirst", "none") :
        d \in WideDims, base \in RefBases, n \in {"exact", "padded"}}
    \cup {FrameCase(d[1], d[2], d[3], d[4], MixedWidths, LowRefs, "exact", "exact",
                    "bitsFirst", "none") : d \in TallDims \cup NarrowDims}

\* what lies in memory that was never written: a byte behind the input
\* buffer, a word of the stack or of the heap
Strays == {[byte |-> 0, word |-> 0], [byte |-> 127, word |-> 43690]}

\* what a store behind the end of a heap block does to the process
Heaps == {"slack", "abort"}

\* the call Decode(output, f.width, f.height, input, len)
DecodeCall(f, stray, input) ==
    [mode |-> "frame", phase |-> "call", made |-> f, stray |-> stray,
     input |-> input, len |-> Len(input), width |-> f.width, height |-> f.height,
     encW |-> 0, encH |-> 0, bitsOff |-> 0, refsOff |-> 0,
     bits |-> <<>>, refs |-> <<>>, offset |-> 0, metaIdx |-> 0,
     y |-> 0, p |-> <<>>, rows |-> <<>>, out |-> <<>>, rc |-> -1,
     under |-> FALSE, wild |-> FALSE, outside |-> FALSE, spilled |-> FALSE,
     over |-> FALSE, far |-> FALSE]

InitFrameIn(cases) ==
    /\ dir = <<>>
    /\ scanned = {}
    /\ contexts = <<>>
    /\ pc = "codec"
    /\ last = NoCall
    /\ hist = <<>>
    /\ threads = NoThreads
    /\ \E f \in cases, stray \in Strays : codec = DecodeCall(f, stray, MakeFrame(f))

InitFrame == InitFrameIn(FrameCases)

Frame(phase) == codec.mode = "frame" /\ codec.phase = phase
FsUnchanged == UNCHANGED <<dir, scanned, contexts, pc, last, hist, threads>>

\* a mutation of the header check: the width's multiple of 64 is not tested
CheckedAnyWidth(c, h) ==
    IF \/ h.bitsOff > c.len
       \/ h.refsOff > c.len
       \/ h.w < c.width
    THEN [c EXCEPT !.phase = "returned", !.rc = 0]
    ELSE [c EXCEPT !.phase = "bits", !.encW = h.w, !.encH = h.h,
                   !.bitsOff = h.bitsOff, !.refsOff = h.refsOff]

\* Decode: the header is read and checked
Checked(c, h) ==
    IF \/ h.bitsOff > c.len
       \/ h.refsOff > c.len
       \/ h.w % ENCODING_BLOCK # 0
       \/ h.w < c.width
    THEN [c EXCEPT !.phase = "returned", !.rc = 0]
    ELSE [c EXCEPT !.phase = "bits", !.encW = h.w, !.encH = h.h,
                   !.bitsOff = h.bitsOff, !.refsOff = h.refsOff]

DecodeHeader ==
    /\ Frame("call")
    /\ codec' = [Checked(codec, ReadMetadataHeader(codec.input, codec.stray.byte))
                    EXCEPT !.over = codec.len < METADATA_OFFSET]
    /\ FsUnchanged

\* Decode: DecodeMetadata(input, off, len, v) for the bits or the refs vector.
\* Values stored behind the end of the vector either land in unused memory or
\* end the process.
Stored(c, m, field, then, heap) ==
    IF heap = "abort"
    THEN [c EXCEPT !.phase = "aborted", !.spilled = TRUE, !.over = @ \/ m.over,
                   !.far = @ \/ m.far]
    ELSE [c EXCEPT !.phase = then, ![field] = m.out,
                   !.under = @ \/ m.under,
                   !.over = @ \/ m.over,
                   !.far = @ \/ m.far,
                   !.spilled = @ \/ m.stored > Len(m.out)]

StreamDecoded(m, field, then) ==
    \E heap \in (IF m.stored > Len(m.out) THEN Heaps ELSE {"slack"}) :
        codec' = Stored(codec, m, field, then, heap)

DecodeBits ==
    /\ Frame("bits")
    /\ StreamDecoded(DecodeMetadata(codec.input, codec.bitsOff, codec.len, codec.stray),
                     "bits", "refs")
    /\ FsUnchanged

DecodeRefs ==
    /\ Frame("refs")
    /\ StreamDecoded(DecodeMetadata(codec.input, codec.refsOff, codec.len, codec.stray),
                     "refs", "locals")
    /\ FsUnchanged

\* Decode: the row buffers (zero-filled vectors), offset, metaIdx and the
\* block arrays p0..p3, which are not initialized
DecodeLocals ==
    /\ Frame("locals")
    /\ codec' = [codec EXCEPT
                    !.phase = "rows",
                    !.rows = [n \in 1..4 |-> [c \in 1..codec.encW |-> 0]],
                    !.offset = METADATA_OFFSET,
                    !.metaIdx = 0,
                    !.y = 0,
                    !.p = [k \in 1..4 |-> [j \in 1..ENCODING_BLOCK |-> codec.stray.word]]]
    /\ FsUnchanged

\* Decode: one iteration of the loop over y, c being the locals after the
\* loop over x. A bit-width above 16 indexes behind decodeTable, which ends
\* the process.
RowsCopied(c) ==
    IF c.wild
    THEN [c EXCEPT !.phase = "aborted"]
    ELSE [c EXCEPT !.out = CopyRows(@, c.rows, c.width), !.y = @ + 4]

DecodeRowQuad ==
    /\ Frame("rows")
    /\ codec.y < codec.encH
    /\ codec' = RowsCopied(Columns(codec, 0))
    /\ FsUnchanged

\* Decode: return size_t(output - outStart)
DecodeReturn ==
    /\ Frame("rows")
    /\ codec.y >= codec.encH
    /\ codec' = [codec EXCEPT !.phase = "returned", !.rc = Len(codec.out)]
    /\ FsUnchanged

NextFrame ==
    \/ DecodeHeader
    \/ DecodeBits
    \/ DecodeRefs
    \/ DecodeLocals
    \/ DecodeRowQuad
    \/ DecodeReturn

SpecFrame == InitFrame /\ [][NextFrame]_vars

\* ------------------------------------------------------------ the block loop

\* DecodeMetadata's loop counter i is a uint32_t that only takes multiples of
\* ENCODING_BLOCK: it is kept as the block number i / 64, which wraps at
\* 2^32 / 64. The count num is kept as 64 * q + r.
CounterBlocks == 2^26

MaxRunLog == 12

\* the lengths of the runs of iterations followed in one step
RunLengths == {4^e : e \in 0..MaxRunLog}

Count(q, r) == [q |-> q, r |-> r]

\* counts of 0, 1, 64, 65, 6404 and 2^31 values, and the counts from
\* 2^32 - 128 to 2^32 - 1 around the last multiple of 64
LoopCounts ==
    {Count(0, 0), Count(0, 1), Count(1, 0), Count(1, 1), Count(100, 4),
     Count(CounterBlocks \div 2, 0),
     Count(CounterBlocks - 2, 0), Count(CounterBlocks - 2, 63),
     Count(CounterBlocks - 1, 0), Count(CounterBlocks - 1, 1),
     Count(CounterBlocks - 1, 63)}

\* the number of block numbers k from 0 on with 64 * k < num
BlocksBelow(num) == num.q + (IF num.r > 0 THEN 1 ELSE 0)

\* i < num, for i = 64 * k
LoopTest(k, num) == k < BlocksBelow(num)

\* i += ENCODING_BLOCK in uint32_t, n times
Advance(k, n) == (k + n) % CounterBlocks

\* the call DecodeMetadata(input, offset, len, out) with a stream whose first
\* four bytes hold num
InitLoop ==
    /\ dir = <<>>
    /\ scanned = {}
    /\ contexts = <<>>
    /\ pc = "codec"
    /\ last = NoCall
    /\ hist = <<>>
    /\ threads = NoThreads
    /\ \E num \in LoopCounts :
          codec = [mode |-> "loop", phase |-> "resize", num |-> num, k |-> 0]

Loop(phase) == codec.mode = "loop" /\ codec.phase = phase

\* out.resize(num) returns, or throws for want of memory
MetadataResize ==
    /\ Loop("resize")
    /\ \E outcome \in {"ok", "throw"} :
          codec' = [codec EXCEPT !.phase = IF outcome = "ok" THEN "loop" ELSE "thrown"]
    /\ FsUnchanged

\* the runs of n iterations from block k on: every test i < num along the
\* run passes
RunsFrom(k, num) == {n \in RunLengths : LoopTest(k + n - 1, num)}

LongestRun(runs) == CHOOSE n \in runs : \A m \in runs : m <= n

\* the body of the loop, over the longest run of RunLengths whose tests all
\* pass: the counter is advanced once per iteration
MetadataIterations ==
    /\ Loop("loop")
    /\ LoopTest(codec.k, codec.num)
    /\ codec' = [codec EXCEPT !.k = Advance(@, LongestRun(RunsFrom(codec.k, codec.num)))]
    /\ FsUnchanged

\* the test i < num fails: return offset
MetadataReturn ==
    /\ Loop("loop")
    /\ ~LoopTest(codec.k, codec.num)
    /\ codec' = [codec EXCEPT !.phase = "done"]
    /\ FsUnchanged

NextLoop ==
    \/ MetadataResize
    \/ MetadataIterations
    \/ MetadataReturn

\* a loop that can go on does go on
SpecLoop == InitLoop /\ [][NextLoop]_vars /\ WF_vars(NextLoop)

\* ------------------------------------------------------------ the claims

\* the mounted captures
Mounted == DOMAIN contexts

\* the frame of capture b that the file name n stands for, by the index
\* printed in the name
FrameOfName(b, n) ==
    dir[b].frames[CHOOSE i \in 1..Len(dir[b].frames) : n = frameName(b, i - 1)]

\* the last (at most MAX_CACHE_FRAMES) names inserted into a capture's cache
LastInserted(h) == SubSeq(h, Len(h) - Min(MAX_CACHE_FRAMES, Len(h)) + 1, Len(h))

Occurrences(seq, x) == Cardinality({k \in 1..Len(seq) : seq[k] = x})

\* C1: in every state the mounter reaches, each capture's cache holds at most
\* MAX_CACHE_FRAMES blobs, frameCacheOrder has as many entries as frameCache,
\* and every key of frameCache occurs exactly once in frameCacheOrder.
C1_CacheBound ==
    \A b \in Mounted :
        LET ctx == contexts[b] IN
        /\ Cardinality(CacheKeys(ctx)) <= MAX_CACHE_FRAMES
        /\ Len(ctx.frameCacheOrder) = Cardinality(CacheKeys(ctx))
        /\ \A k \in CacheKeys(ctx) : Occurrences(ctx.frameCacheOrder, k) = 1

\* a read has just inserted into a full cache, evicting an entry
C1_Witness ==
    /\ last.op = "read"
    /\ last.calls # <<>>
    /\ last.rc > 0
    /\ \E b \in Mounted :
          /\ Cardinality(CacheKeys(contexts[b])) = MAX_CACHE_FRAMES
          /\ Len(hist[b]) > MAX_CACHE_FRAMES

\* C2 (state part): the cache holds exactly the most recently inserted names
\* in insertion order, so every eviction removed the earliest inserted
\* entry; after MAX_CACHE_FRAMES + 1 inserts the first name is absent.
C2_FifoOrder ==
    \A b \in Mounted :
        LET ctx == contexts[b]
            h == hist[b]
        IN /\ ctx.frameCacheOrder = LastInserted(h)
           /\ CacheKeys(ctx) = Range(LastInserted(h))
           /\ Len(h) > MAX_CACHE_FRAMES => h[Len(h) - MAX_CACHE_FRAMES] \notin CacheKeys(ctx)

\* C2 (step part): a fs_read of a listed frame that is not cached, evicted
\* ones included, passes that frame's timestamp to loadFrame.
C2_MissDecodes ==
    \A b \in Mounted : \A n \in Range(contexts[b].filenames) :
        (/\ last.op = "none"
         /\ last'.op = "read"
         /\ last'.path = FilePath(b, n)
         /\ n \notin CacheKeys(contexts[b]))
        => last'.calls = <<FrameOfName(b, n).ts>>

\* C2: eviction is first-in-first-out, and a read of an evicted frame
\* invokes the container decoder again.
C2_FifoEviction == [](C2_FifoOrder) /\ [][C2_MissDecodes]_vars

\* the first frame was loaded, evicted by the load of the K+1st name, and
\* has just been loaded again by a read
C2_Witness ==
    /\ last.op = "read"
    /\ last.rc > 0
    /\ \E b \in Mounted :
          /\ Len(hist[b]) = MAX_CACHE_FRAMES + 2
          /\ hist[b][Len(hist[b])] = hist[b][1]
          /\ last.path = FilePath(b, hist[b][1])
          /\ last.calls = <<FrameOfName(b, hist[b][1]).ts>>

\* the data a regular file of the mount holds: a listed frame's serialized DNG
\* or the capture's audio buffer
IsFramePath(b, p) == \E n \in Range(contexts[b].filenames) : p = FilePath(b, n)
IsWavPath(b, p) == p = FilePath(b, AudioName(b))
FrameBlob(b, p) ==
    PackDng(FrameOfName(b, CHOOSE n \in Range(contexts[b].filenames) : p = FilePath(b, n)))

\* what read(o, s) returns on data of length len
ReadLength(len, o, s) == IF o < len THEN Min(s, len - o) ELSE 0

ReadServes(data) ==
    /\ last.rc = ReadLength(Len(data), last.offset, last.size)
    /\ Len(last.buf) = last.rc
    /\ \A k \in 1..last.rc : last.buf[k] = data[last.offset + k]

\* C3: a successful fs_read of a frame file returns min(s, blob_len - o) bytes
\* when o < blob_len and 0 otherwise, and the bytes copied are
\* blob[o .. o+returned) of that frame's serialized DNG; the same holds for
\* the WAV file against the audio buffer.
C3_ReadSemantics ==
    (last.op = "read" /\ last.rc >= 0) =>
        \A b \in Mounted :
            /\ IsFramePath(b, last.path) => ReadServes(FrameBlob(b, last.path))
            /\ IsWavPath(b, last.path) => ReadServes(contexts[b].audioWavData)

\* a read from inside a frame's blob that was clipped at its end, and one of
\* the WAV file
C3_Witness ==
    /\ last.op = "read"
    /\ last.offset > 0
    /\ 0 < last.rc
    /\ last.rc < last.size
    /\ \E b \in Mounted : IsFramePath(b, last.path) /\ Len(hist[b]) > 1

C3_WitnessWav ==
    /\ last.op = "read"
    /\ 0 < last.rc
    /\ \E b \in Mounted : IsWavPath(b, last.path)

\* C4 (state part): frameSize is 0 until the first insert and from then on
\* the length of the first blob inserted.
C4_SizeOfFirstInsert ==
    \A b \in Mounted :
        contexts[b].frameSize =
            IF hist[b] = <<>> THEN 0 ELSE Len(PackDng(FrameOfName(b, hist[b][1])))

\* C4 (step part): once nonzero, frameSize is the same after every step of
\* the mounted capture.
C4_SizeKept ==
    \A b \in Mounted \cap DOMAIN contexts' :
        contexts[b].frameSize # 0 => contexts'[b].frameSize = contexts[b].frameSize

\* C4: the uniform size is set by the first successful pack and insert and
\* then keeps its value through every load, eviction, failed decode and
\* callback.
C4_UniformSizeFixed == [](C4_SizeOfFirstInsert) /\ [][C4_SizeKept]_vars

\* the size was set by the first frame, and after an eviction the cache holds
\* a blob of another length
C4_Witness ==
    \E b \in Mounted :
        /\ contexts[b].frameSize # 0
        /\ Len(hist[b]) > MAX_CACHE_FRAMES
        /\ \E n \in CacheKeys(contexts[b]) :
              Len(contexts[b].frameCache[n]) # contexts[b].frameSize

\* C5: when fuse_main starts serving, every mounted capture with at least one
\* frame has a nonzero frameSize, so fs_getattr reports no listed frame file
\* with size 0.
C5_SizeKnownWhenServing ==
    pc = "serving" =>
        \A b \in Mounted :
            contexts[b].filenames # <<>> =>
                /\ contexts[b].frameSize # 0
                /\ \A n \in Range(contexts[b].filenames) :
                      fs_getattr(contexts, FilePath(b, n)).st.st_size # 0

\* C6: the size fs_getattr reports for a frame file equals the number of
\* bytes a read of the whole file (from offset 0 up to end-of-file) returns,
\* and is the same for all frames of the capture.
C6_StatSizeIsReadLength ==
    \A b \in Mounted :
        /\ \A n, m \in Range(contexts[b].filenames) :
              fs_getattr(contexts, FilePath(b, n)).st.st_size
                  = fs_getattr(contexts, FilePath(b, m)).st.st_size
        /\ (/\ last.op = "read"
            /\ IsFramePath(b, last.path)
            /\ last.offset = 0
            /\ 0 <= last.rc
            /\ last.rc < last.size)
           => fs_getattr(contexts, last.path).st.st_size = last.rc

\* the names of a capture's frames in frame-list order, from the container
ExpectedFrameNames(b) == [k \in 1..Len(dir[b].frames) |-> frameName(b, k - 1)]

NoDuplicates(seq) == \A i, j \in 1..Len(seq) : seq[i] = seq[j] => i = j

\* C7: fs_readdir on a known capture directory emits "." and "..", then each
\* frame file name once in frame-list order, then <base>.wav if and only if
\* the audio buffer is non-empty; nothing is emitted twice.
C7_DirectoryListing ==
    \A b \in Mounted :
        (last.op = "readdir" /\ last.path = DirPath(b)) =>
            /\ last.rc = 0
            /\ last.entries =
                  <<DotName, DotDotName>> \o ExpectedFrameNames(b)
                      \o (IF contexts[b].audioWavData # <<>>
                          THEN <<AudioName(b)>> ELSE <<>>)
            /\ NoDuplicates(last.entries)

\* the listing of a capture with several frames and audio
C7_Witness ==
    /\ last.op = "readdir"
    /\ \E b \in Mounted :
          /\ last.path = DirPath(b)
          /\ Len(dir[b].frames) > 1
          /\ contexts[b].audioWavData # <<>>
          /\ Len(last.entries) = Len(dir[b].frames) + 3

\* the kinds of path of the two-level mount
IsDirectoryPath(p) == p = RootPath \/ \E b \in Mounted : p = DirPath(b)
IsListedFrame(p) ==
    \E b \in Mounted : \E n \in Range(ExpectedFrameNames(b)) : p = FilePath(b, n)
IsAudioFile(p) ==
    \E b \in Mounted : IsWavPath(b, p) /\ contexts[b].audioWavData # <<>>
AudioLength(p) ==
    Len(contexts[CHOOSE b \in Mounted : IsWavPath(b, p)].audioWavData)

\* the path of the entry named n in the directory p
Child(p, n) == IF p = RootPath THEN <<Slash>> \o n ELSE p \o <<Slash>> \o n

\* the names looked up in a directory: those a client asks for and those the
\* listing gave, without "." and ".." (which the kernel resolves itself)
LookupNames ==
    ((InputNames(dir) \cup (DOMAIN dir) \cup {BaseX} \cup Range(last.entries))
        \ {DotName, DotDotName, <<>>})

\* C8 (stat): fs_getattr classifies every path: "/" and the directory of a
\* known capture are directories of mode 0555, a listed frame and the WAV of a
\* capture with audio are regular files of mode 0444 (the WAV with the size
\* of the audio buffer), and every other path is ENOENT.
C8_StatClassifies ==
    last.op = "getattr" =>
        /\ IsDirectoryPath(last.path) =>
              last.rc = 0 /\ last.st.st_mode = S_IFDIR + DirPerm
        /\ IsListedFrame(last.path) =>
              last.rc = 0 /\ last.st.st_mode = S_IFREG + FilePerm
        /\ IsAudioFile(last.path) =>
              /\ last.rc = 0
              /\ last.st.st_mode = S_IFREG + FilePerm
              /\ last.st.st_size = AudioLength(last.path)
        /\ ~(IsDirectoryPath(last.path) \/ IsListedFrame(last.path)
                \/ IsAudioFile(last.path)) => last.rc = -ENOENT

\* C8 (agreement): fs_readdir succeeds exactly on the paths fs_getattr calls
\* directories, and a name is stat-able in a directory exactly when the
\* listing of that directory holds it.
C8_ListingAgrees ==
    last.op = "readdir" =>
        /\ last.rc = 0 <=>
              (/\ fs_getattr(contexts, last.path).rc = 0
               /\ fs_getattr(contexts, last.path).st.st_mode = S_IFDIR + DirPerm)
        /\ last.rc = 0 =>
              \A n \in LookupNames :
                  n \in Range(last.entries)
                      <=> fs_getattr(contexts, Child(last.path, n)).rc = 0

\* C8: fs_getattr and fs_readdir classify every path and agree.
C8_NamespaceAgrees == C8_StatClassifies /\ C8_ListingAgrees

\* the WAV name of a mounted capture without audio is stat-ed and is ENOENT
C8_Witness ==
    /\ last.op = "getattr"
    /\ last.rc = -ENOENT
    /\ \E b \in Mounted :
          /\ IsWavPath(b, last.path)
          /\ contexts[b].audioWavData = <<>>
          /\ contexts[b].filenames # <<>>

ExistingFile(p) == IsListedFrame(p) \/ IsAudioFile(p)

\* C9 as stated: fs_open of an existing regular file returns 0 only when the
\* open flags are exactly read-only, and EACCES with any other flags.
C9_OnlyExactlyReadOnly ==
    (last.op = "open" /\ ExistingFile(last.path)) =>
        /\ last.flags = O_RDONLY => last.rc = 0
        /\ last.flags # O_RDONLY => last.rc = -EACCES

\* C9 amended: fs_open of an existing regular file returns 0 when the access
\* mode of the flags (flags & 3) is read-only, whatever the other flag bits,
\* and EACCES when the access mode is anything else.
C9_AccessModeReadOnly ==
    (last.op = "open" /\ ExistingFile(last.path)) =>
        /\ last.flags % (O_ACCMODE + 1) = O_RDONLY => last.rc = 0
        /\ last.flags % (O_ACCMODE + 1) # O_RDONLY => last.rc = -EACCES

\* an existing file is opened for writing and refused
C9_Witness ==
    /\ last.op = "open"
    /\ ExistingFile(last.path)
    /\ last.flags % (O_ACCMODE + 1) # O_RDONLY
    /\ last.rc = -EACCES

\* C10: on every path for which fs_getattr returns ENOENT, fs_open and
\* fs_read return ENOENT too, whatever the flags.
C10_UnknownPathsAreEnoent ==
    (last.op \in {"open", "read"} /\ fs_getattr(contexts, last.path).rc = -ENOENT)
        => last.rc = -ENOENT

\* C11 as stated: fs_open on the root or on a mounted capture directory
\* returns EISDIR, or EACCES when the access mode asks for writing; it never
\* returns 0 and never ENOENT.
C11_DirectoryOpenRejected ==
    (last.op = "open" /\ IsDirectoryPath(last.path)) =>
        \/ last.rc = -EISDIR
        \/ last.flags % (O_ACCMODE + 1) # O_RDONLY /\ last.rc = -EACCES

\* a listed frame of a mounted capture that is not in its cache
IsUncachedFrame(p) ==
    \E b \in Mounted : \E n \in Range(ExpectedFrameNames(b)) :
        p = FilePath(b, n) /\ n \notin CacheKeys(contexts[b])

FailingOutcomes == {"throw", "packfail"}

\* C12: a fs_read of an uncached frame during which loadFrame throws or the
\* DNG serialization fails returns EIO and leaves every capture's cache map,
\* FIFO order and frameSize as they were, and the same read afterwards passes
\* the frame's timestamp to loadFrame again.
C12_FailedReadStep ==
    \A outcome \in FailingOutcomes :
        (/\ Idle
         /\ last'.op = "read"
         /\ IsUncachedFrame(last'.path)
         /\ ReadCall(last'.path, last'.size, last'.offset, outcome))
        => /\ last'.rc = -EIO
           /\ contexts' = contexts
           /\ last'.calls # <<>>
           /\ fs_read(contexts', last'.path, last'.size, last'.offset, "ok").calls
                 = last'.calls

C12_DecodeFailureIsEio == [][C12_FailedReadStep]_vars

\* a read failed with EIO in the decoder while the capture's cache was full
C12_Witness ==
    /\ last.op = "read"
    /\ last.rc = -EIO
    /\ last.calls # <<>>
    /\ IsUncachedFrame(last.path)
    /\ Cardinality(CacheKeys(contexts[ReadBase(last.path)])) = MAX_CACHE_FRAMES

\* the consumed-byte counts of the format, by bit-width (0-based)
TableValue(b) ==
    <<0, 8, 16, 24, 32, 40, 48, 64, 64, 80, 80, 128, 128, 128, 128, 128, 128>>[b + 1]

BlockDecoded == codec.mode = "block" /\ codec.phase = "decoded"
EnoughBytes == codec.offset + TableValue(codec.bits) <= codec.len

\* C13: for every bit-width b in 0..16, a DecodeBlock call with at least the
\* table's byte count remaining writes exactly the 64 output values and
\* returns the table value for b; b = 0 yields 64 zeros and consumes 0 bytes.
C13_BlockLength ==
    (BlockDecoded /\ EnoughBytes) =>
        /\ codec.consumed = TableValue(codec.bits)
        /\ \A i \in 1..ENCODING_BLOCK : codec.output[i] \in 0..(WordMod - 1)
        /\ \A i \in (ENCODING_BLOCK + 1)..Len(codec.output) :
              codec.output[i] = Untouched
        /\ codec.bits = 0 =>
              /\ codec.consumed = 0
              /\ \A i \in 1..ENCODING_BLOCK : codec.output[i] = 0

\* a 9-bit block inside a longer buffer was decoded, and a 0-bit block
C13_Witness ==
    /\ BlockDecoded
    /\ codec.bits = 9
    /\ codec.offset > 0
    /\ codec.offset + 80 < codec.len
    /\ codec.consumed = 80
    /\ codec.output[ENCODING_BLOCK] # Untouched

RoundTrip ==
    /\ SubSeq(codec.output, 1, ENCODING_BLOCK) = codec.values
    /\ codec.consumed = TableValue(codec.bits)

C14_WitnessRaw ==
    /\ BlockDecoded
    /\ EnoughBytes
    /\ codec.bits = 13
    /\ codec.packedAs = 16
    /\ \E i \in 1..ENCODING_BLOCK : codec.values[i] >= 4096
    /\ RoundTrip

\* the header of the input passes the checks of Decode
HeaderPasses ==
    /\ codec.made.fault \notin {"width", "bitsOff", "refsOff"}
    /\ codec.made.width <= codec.made.encW

Returned == codec.mode = "frame" /\ codec.phase = "returned"

\* C15 as stated: for every encoded frame whose header passes the checks,
\* Decode writes exactly requested_width x requested_height samples and
\* returns that count.
C15_DecodeShape ==
    (Returned /\ HeaderPasses) =>
        /\ Len(codec.out) = codec.width * codec.height
        /\ codec.rc = codec.width * codec.height

\* the header of the input as the checks of Decode see it
HeaderInvalid ==
    LET h == ReadMetadataHeader(codec.input, 0)
    IN \/ h.w % 64 # 0
       \/ h.w < codec.width
       \/ h.bitsOff > codec.len
       \/ h.refsOff > codec.len

\* C16: when encoded_width is not a multiple of 64 or less than the requested
\* width, or a stream offset exceeds the buffer length, Decode returns 0 and
\* writes no sample to the output buffer.
C16_HeaderRejected ==
    (codec.mode = "frame" /\ codec.phase # "call" /\ HeaderInvalid) =>
        /\ codec.phase = "returned"
        /\ codec.rc = 0
        /\ codec.out = <<>>

\* a frame whose encoded width is no multiple of 64 was rejected
C16_Witness ==
    /\ Returned
    /\ codec.made.fault = "width"
    /\ codec.made.width <= codec.made.encW
    /\ codec.rc = 0

\* C17 as stated: when a block read under-runs in the bits stream, the
\* references stream or the payload, Decode fails and returns 0.
C17_UnderrunFails ==
    (Returned /\ codec.under) => codec.rc = 0 /\ codec.out = <<>>

\* C18 as stated: Decode reaches the payload only when the bits and the
\* references stream decoded to the same length, equal to
\* (encoded_width/64) x (encoded_height/4) x 4, so that every bits[metaIdx]
\* and refs[metaIdx] read lies within the decoded sequences.
C18_StreamLengthsChecked ==
    (codec.mode = "frame" /\ codec.phase \in {"locals", "rows"}) =>
        /\ Len(codec.bits) = Len(codec.refs)
        /\ Len(codec.bits) = Quads(codec.encW, codec.encH) * 4
        /\ ~codec.outside

\* the sample of row Y, column X (0-based) of a frame, from the blocks and
\* references it was made of: residue plus reference
SampleOf(f, Y, X) ==
    LET q == (Y \div 4) * (f.encW \div ENCODING_BLOCK) + X \div ENCODING_BLOCK
        n == Y % 4
        i == X % ENCODING_BLOCK
        blk == IF n \in {0, 2} THEN (IF i % 2 = 0 THEN 1 ELSE 2)
               ELSE (IF i % 2 = 0 THEN 3 ELSE 4)
        at == (IF n >= 2 THEN 32 ELSE 0) + i \div 2
    IN ResidueBlock(q, blk, f.widths[blk])[at + 1] + RefOf(q, blk, f.base)

\* the frame is as the encoder made it, with every stream entry present
Intact ==
    /\ codec.made.fault = "none"
    /\ codec.made.bitsCount # "short"
    /\ codec.made.refsCount # "short"
    /\ codec.made.width <= codec.made.encW

RowsOut == Len(codec.out) \div codec.width

\* C19: with p0..p3 the four decoded blocks of a row-quad position and r0..r3
\* their references, rows y and y+1 take the first halves of p0/p1 and p2/p3
\* interleaved column by column, rows y+2 and y+3 the second halves, each
\* sample being block value plus reference in 16-bit arithmetic; a 64x4 frame
\* of zero residues with references 10, 20, 30, 40 gives rows 10,20,..,
\* 30,40,.., 10,20,.., 30,40,...
C19_Interleave ==
    (Returned /\ Intact) =>
        \A Y \in 0..(RowsOut - 1) : \A X \in 0..(codec.width - 1) :
            codec.out[Y * codec.width + X + 1] = SampleOf(codec.made, Y, X) % WordMod

\* the 64x4 frame of zero residues with references 10, 20, 30, 40 was decoded
C19_Witness ==
    /\ Returned
    /\ codec.made.widths = <<0, 0, 0, 0>>
    /\ codec.made.encW = 64
    /\ codec.width = 64
    /\ codec.made.bitsCount = "exact"
    /\ codec.rc = 256
    /\ \A X \in 0..63 :
          /\ codec.out[X + 1] = (IF X % 2 = 0 THEN 10 ELSE 20)
          /\ codec.out[64 + X + 1] = (IF X % 2 = 0 THEN 30 ELSE 40)
          /\ codec.out[128 + X + 1] = (IF X % 2 = 0 THEN 10 ELSE 20)
          /\ codec.out[192 + X + 1] = (IF X % 2 = 0 THEN 30 ELSE 40)

\* the entries the two streams of the frame were made of
StreamsAsMade ==
    /\ codec.bits = Declared(BitsEntries(Quads(codec.made.encW, codec.made.encH),
                                         codec.made.widths), codec.made.bitsCount)
    /\ codec.refs = Declared(RefsEntries(Quads(codec.made.encW, codec.made.encH),
                                         codec.made.base), codec.made.refsCount)

\* C20 as stated: every decoded sample equals residue plus reference as an
\* integer sum, in the metadata streams and in the payload.
C20_IntegerSum ==
    /\ (codec.mode = "frame" /\ codec.phase \in {"locals", "rows", "returned"}
            /\ codec.made.fault = "none" /\ codec.made.width <= codec.made.encW)
        => StreamsAsMade
    /\ (Returned /\ Intact) =>
        \A Y \in 0..(RowsOut - 1) : \A X \in 0..(codec.width - 1) :
            codec.out[Y * codec.width + X + 1] = SampleOf(codec.made, Y, X)

\* C20 amended: every decoded sample equals (residue + reference) mod 65536,
\* which is the integer sum whenever that sum is at most 65535; the entries
\* of the metadata streams, all below 65536, come out as the integer sums.
C20_SumModWord ==
    /\ (codec.mode = "frame" /\ codec.phase \in {"locals", "rows", "returned"}
            /\ codec.made.fault = "none" /\ codec.made.width <= codec.made.encW)
        => StreamsAsMade
    /\ (Returned /\ Intact) =>
        \A k \in 1..Len(codec.out) :
            LET s == SampleOf(codec.made, (k - 1) \div codec.width, (k - 1) % codec.width)
            IN /\ codec.out[k] = s % WordMod
               /\ s < WordMod => codec.out[k] = s

\* a frame of 16-bit residues with a reference of 4095 was decoded, a sum
\* passing 65535, and its streams carried references above their block's own
C20_Witness ==
    /\ Returned
    /\ Intact
    /\ codec.rc > 0
    /\ \E k \in 1..Len(codec.out) :
          SampleOf(codec.made, (k - 1) \div codec.width, (k - 1) % codec.width) >= WordMod
    /\ \E i, j \in 1..Len(codec.refs) : codec.refs[i] > codec.refs[j] /\ codec.refs[j] > 0

\* thread t is between the miss check of load_frame and the end of its insert
InRegion(t) == threads[t].pc \in {"decoding", "evict", "pop", "put", "push", "size"}

\* C21: load-on-miss is atomic with respect to other callbacks: while a read
\* is between its miss check and the end of its insert no other callback
\* runs, so no name is in the FIFO twice, and whenever no read is in that
\* region the cache map and the FIFO hold the same names.
C21_LoadOnMissAtomic ==
    /\ \A t, u \in DOMAIN threads : (InRegion(t) /\ u # t) => threads[u].pc = "idle"
    /\ \A b \in Mounted :
          /\ NoDuplicates(contexts[b].frameCacheOrder)
          /\ (\A t \in DOMAIN threads : ~InRegion(t)) =>
                CacheKeys(contexts[b]) = Range(contexts[b].frameCacheOrder)

\* a read has evicted the oldest entry and stored its blob in the map, whose
\* name is not in the FIFO yet
C21_Witness ==
    \E t \in DOMAIN threads :
        /\ threads[t].pc = "push"
        /\ threads[t].fname \in CacheKeys(contexts[threads[t].base])
        /\ threads[t].fname \notin Range(contexts[threads[t].base].frameCacheOrder)
        /\ Len(contexts[threads[t].base].frameCacheOrder) = MAX_CACHE_FRAMES - 1

\* C22: at no time are two calls of loadFrame on the same decoder in
\* progress.
C22_LoadFrameSerialized ==
    \A t, u \in DOMAIN threads :
        (/\ threads[t].pc = "decoding"
         /\ threads[u].pc = "decoding"
         /\ threads[t].base = threads[u].base) => t = u

\* loadFrame is in progress on the last thread, for a frame that was cached
\* before and evicted
C22_Witness ==
    \E t \in DOMAIN threads :
        /\ t = NumThreads
        /\ threads[t].pc = "decoding"
        /\ Cardinality(CacheKeys(contexts[threads[t].base])) = MAX_CACHE_FRAMES
        /\ threads[t].fname = frameName(BaseA, 0)

\* the six decimal digits of an index below 1000000, most significant first
SixDigits(i) ==
    LET digit(d) == <<"0", "1", "2", "3", "4", "5", "6", "7", "8", "9">>[d + 1]
    IN <<digit((i \div 100000) % 10), digit((i \div 10000) % 10),
         digit((i \div 1000) % 10), digit((i \div 100) % 10),
         digit((i \div 10) % 10), digit(i % 10)>>

\* <base>_NNNNNN.dng
NameOfIndex(b, i) == b \o <<"_">> \o SixDigits(i) \o <<".", "d", "n", "g">>

\* C23: the frame files of a capture are named <base>_NNNNNN.dng by their
\* zero-based index in frame-list order, distinct frames have distinct
\* names, and the file of index i holds, in the cache and in every read, the
\* DNG of the frame frameList[i] and of no other frame.
C23_NamesFollowFrameList ==
    \A b \in Mounted :
        LET ctx == contexts[b] IN
        /\ Len(ctx.filenames) = Len(dir[b].frames)
        /\ NoDuplicates(ctx.filenames)
        /\ \A i \in 0..(Len(dir[b].frames) - 1) :
              LET n == NameOfIndex(b, i)
                  blob == PackDng(dir[b].frames[i + 1])
              IN /\ ctx.filenames[i + 1] = n
                 /\ ctx.frameList[i + 1] = dir[b].frames[i + 1].ts
                 /\ n \in CacheKeys(ctx) => ctx.frameCache[n] = blob
                 /\ (last.op = "read" /\ last.path = FilePath(b, n)) =>
                       /\ last.calls \in {<<>>, <<dir[b].frames[i + 1].ts>>}
                       /\ last.rc >= 0 =>
                             \A k \in 1..last.rc : last.buf[k] = blob[last.offset + k]

\* the last frame of a capture of more frames than the cache holds was
\* decoded and read
C23_Witness ==
    /\ last.op = "read"
    /\ last.rc > 0
    /\ \E b \in Mounted :
          /\ Len(dir[b].frames) > MAX_CACHE_FRAMES
          /\ last.path = FilePath(b, NameOfIndex(b, Len(dir[b].frames) - 1))
          /\ last.calls = <<dir[b].frames[Len(dir[b].frames)].ts>>
          /\ last.buf[1] = dir[b].frames[Len(dir[b].frames)].ts + 1

\* C24 as stated: the DNG packed for a frame carries the Orientation tag with
\* the orientation of the container metadata when the container provides
\* one, and the value is fixed at mount.
C24_OrientationFromContainer ==
    \A b \in Mounted :
        dir[b].orientation # <<>> => DngOrientation(contexts[b]) = dir[b].orientation

\* a listed frame of a mounted capture that is in its cache
IsCachedFrame(p) ==
    \E b \in Mounted : \E n \in CacheKeys(contexts[b]) : p = FilePath(b, n)

\* C25: a fs_read that finds its frame cached calls loadFrame not at all and
\* leaves the cache map, the FIFO order and frameSize of every capture as
\* they were, so the entry read keeps its place in the eviction order.
C25_HitStep ==
    (Idle /\ last'.op = "read" /\ IsCachedFrame(last'.path))
        => /\ last'.calls = <<>>
           /\ last'.rc >= 0
           /\ contexts' = contexts

C25_HitIsNonMutating == [][C25_HitStep]_vars

\* the oldest entry of a full cache was read from the cache and is still the
\* next one to be evicted
C25_Witness ==
    /\ last.op = "read"
    /\ last.calls = <<>>
    /\ last.rc > 0
    /\ \E b \in Mounted :
          /\ Cardinality(CacheKeys(contexts[b])) = MAX_CACHE_FRAMES
          /\ Len(hist[b]) > MAX_CACHE_FRAMES
          /\ last.path = FilePath(b, Head(contexts[b].frameCacheOrder))

\* the 64 values of the block decoded are all below bound
ValuesBelow(bound) == \A i \in 1..ENCODING_BLOCK : codec.output[i] < bound

WidthServed(b) ==
    IF b = 7 THEN 8 ELSE IF b = 9 THEN 10 ELSE IF b >= 11 THEN 16 ELSE b

ZeroBlock == [j \in 1..ENCODING_BLOCK |-> 0]

\* the values vec decoded from the first block of a stream agree with the
\* block's header: plain is that block decoded at the bit-width of the high
\* nibble, wide the same bytes decoded at bit-width 16
HeaderRead(vec, at, nibble, ref, plain, wide) ==
    /\ \A i \in 1..Min(Len(vec), ENCODING_BLOCK) :
          vec[i] = (plain.output[i] + ref) % WordMod
    /\ nibble = 15 =>
          /\ plain = wide
          /\ plain.consumed = 128
          /\ \A i \in 0..(ENCODING_BLOCK - 1) :
                plain.output[i + 1] = codec.input[at + 2 * i + 1]
                                          + 256 * codec.input[at + 2 * i + 2]

\* the first block of the stream at off, whose header is bytes 4 and 5 of the
\* stream, when the buffer holds all of it
FirstBlockRead(vec, off) ==
    LET nibble == codec.input[off + 5] \div 16 IN
    (vec # <<>> /\ off + 6 + TableValue(nibble) <= codec.len) =>
        HeaderRead(vec, off + 6, nibble,
                   (codec.input[off + 5] % 16) * 256 + codec.input[off + 6],
                   DecodeBlock(ZeroBlock, nibble, codec.input, off + 6, codec.len),
                   DecodeBlock(ZeroBlock, 16, codec.input, off + 6, codec.len))

\* C27: in a metadata stream the 2-byte header of a block gives the bit-width
\* in the high nibble of byte 0 and the reference as (low nibble of byte 0)
\* * 256 + byte 1; a nibble of 15 decodes the block as 16-bit raw, 128 bytes
\* consumed and output[i] = input[2i] + 256 * input[2i+1], as bit-width 16
\* does.
C27_StreamBlockHeader ==
    (codec.mode = "frame" /\ codec.phase \in {"refs", "locals", "rows"}) =>
        /\ FirstBlockRead(codec.bits, codec.bitsOff)
        /\ FirstBlockRead(codec.refs, codec.refsOff)

\* a references stream whose first block has the nibble 15 and a reference of
\* 256 or more was decoded
C27_Witness ==
    /\ codec.mode = "frame"
    /\ codec.phase = "locals"
    /\ codec.refs # <<>>
    /\ codec.refsOff + 6 + 128 <= codec.len
    /\ codec.input[codec.refsOff + 5] \div 16 = 15
    /\ codec.input[codec.refsOff + 5] % 16 > 0
    /\ codec.refs[1] = 300

\* the input with every byte of the block complemented but those at block
\* offsets congruent to j modulo 8
OthersChanged(j) ==
    [n \in 1..Len(codec.input) |->
        IF n > codec.offset /\ (n - codec.offset - 1) % 8 # j
        THEN 255 - codec.input[n] ELSE codec.input[n]]

\* the values at the positions k*8 + j are as they were
SameAtPosition(j, r) ==
    \A k \in 0..7 : r.output[k * 8 + j + 1] = codec.output[k * 8 + j + 1]

\* C28: for every bit-width b in 1..10, the decoded value output[k*8 + j] is
\* a function of the input bytes at block offsets congruent to j modulo 8
\* only: changing the other bytes of the block leaves it unchanged.
C28_LaneStructure ==
    (BlockDecoded /\ EnoughBytes /\ codec.bits \in 1..10) =>
        \A j \in 0..7 :
            SameAtPosition(j, DecodeBlock([i \in 1..Len(codec.output) |-> Untouched],
                                          codec.bits, OthersChanged(j), codec.offset,
                                          codec.len))

\* a block of bit-width 10 was decoded behind padding, and with the other
\* bytes changed the values of every other position differ
C28_Witness ==
    /\ BlockDecoded
    /\ EnoughBytes
    /\ codec.bits = 10
    /\ codec.offset > 0
    /\ \A i \in 1..ENCODING_BLOCK :
          (i - 1) % 8 # 3 =>
              DecodeBlock([n \in 1..Len(codec.output) |-> Untouched], codec.bits,
                          OthersChanged(3), codec.offset, codec.len).output[i]
                  # codec.output[i]

\* errno.h: ENOTDIR is the code just below EISDIR
ENOTDIR == EISDIR - 1

\* C29 as stated: fs_readdir on a path that names a regular file (a listed
\* frame or the WAV) returns ENOTDIR, and fs_read on a directory path returns
\* EISDIR.
C29_ShapeErrors ==
    /\ (last.op = "readdir" /\ ExistingFile(last.path)) => last.rc = -ENOTDIR
    /\ (last.op = "read" /\ IsDirectoryPath(last.path)) => last.rc = -EISDIR

\* the bytes data[o .. o + n)
Slice(data, o, n) == [k \in 1..n |-> data[o + k]]

\* a read of length ReadLength from data
Served(data, size, offset) ==
    [rc |-> ReadLength(Len(data), offset, size),
     buf |-> Slice(data, offset, ReadLength(Len(data), offset, size))]

Refused(rc) == [rc |-> rc, buf |-> <<>>]

\* fs_read of a filesystem without a cache: a frame file is decoded and
\* packed on every read, decodes being what the container decoder does for
\* that frame
CachelessRead(p, size, offset, decodes) ==
    IF IsDirectoryPath(p) \/ FindSlash(SubstrFrom(p, 1)) = -1 THEN Refused(-EISDIR)
    ELSE IF \E b \in Mounted : IsWavPath(b, p)
    THEN Served(contexts[CHOOSE b \in Mounted : IsWavPath(b, p)].audioWavData,
                size, offset)
    ELSE IF ~IsListedFrame(p) THEN Refused(-ENOENT)
    ELSE IF decodes # "ok" THEN Refused(-EIO)
    ELSE Served(FrameBlob(CHOOSE b \in Mounted : IsFramePath(b, p), p), size, offset)

\* C30: with loadFrame and the DNG serialization deterministic per frame (a
\* cached frame is one that decodes), every fs_read returns the value and
\* copies the bytes that a filesystem without a cache returns, which decodes
\* and packs the frame on every read, whatever was read, cached or evicted
\* before.
C30_ReadStep ==
    \A outcome \in Outcomes :
        (/\ Idle
         /\ last'.op = "read"
         /\ ReadCall(last'.path, last'.size, last'.offset, outcome))
        => LET ref == CachelessRead(last'.path, last'.size, last'.offset,
                                    IF IsCachedFrame(last'.path) THEN "ok" ELSE outcome)
           IN last'.rc = ref.rc /\ last'.buf = ref.buf

C30_CacheTransparent == [][C30_ReadStep]_vars

\* a frame that was decoded, evicted and decoded again was read from the
\* cache
C30_Witness ==
    /\ last.op = "read"
    /\ last.calls = <<>>
    /\ last.rc > 0
    /\ \E b \in Mounted : \E n \in CacheKeys(contexts[b]) :
          /\ last.path = FilePath(b, n)
          /\ Occurrences(hist[b], n) = 2

\* C31: whenever load_frame returns 0 for a frame name, that name is a key of
\* the capture's cache when it returns (the eviction of the same call never
\* removes the entry just inserted), so the lookup of fs_read after a
\* successful load_frame finds the blob and its ENOENT branch is never taken.
C31_LoadedIsCached ==
    \A t \in DOMAIN threads :
        /\ threads[t].pc = "find" =>
              threads[t].fname \in CacheKeys(contexts[threads[t].base])
        /\ (threads[t].pc = "return" /\ threads[t].op = "read"
                /\ threads[t].rc = -ENOENT) =>
              \/ threads[t].base = <<>>
              \/ FindIndex(contexts[threads[t].base].filenames, threads[t].fname) < 0

\* load_frame has returned 0 from a call that evicted the oldest entry of a
\* full cache and inserted the name asked for
C31_Witness ==
    \E t \in DOMAIN threads :
        /\ threads[t].pc = "find"
        /\ threads[t].blob # <<>>
        /\ LET ctx == contexts[threads[t].base] IN
              /\ Cardinality(CacheKeys(ctx)) = MAX_CACHE_FRAMES
              /\ Len(ctx.frameCacheOrder) = MAX_CACHE_FRAMES
              /\ ctx.frameCacheOrder[MAX_CACHE_FRAMES] = threads[t].fname
              /\ frameName(ctx.baseName, 0) \notin CacheKeys(ctx)

\* C32 as stated: for every input buffer of length len and every header
\* content, Decode, DecodeMetadata and the block decoders read input bytes
\* only at indices below len: the 16-byte header, each stream's 4-byte count,
\* each 2-byte block header and each block payload are accessed only when
\* they lie entirely inside the buffer.
C32_ReadsInsideBuffer ==
    codec.mode = "frame" => ~codec.over

\* C33 as stated: DecodeMetadata writes only inside the vector it sized from
\* the stream's 4-byte count: for every count value num, including values
\* that are not a multiple of 64, every block decode and reference addition
\* touches only elements 0..num-1 of the output sequence.
C33_WritesInsideVector ==
    codec.mode = "frame" => ~codec.spilled

\* C34 as stated: every bit-width value that Decode takes from the decoded
\* bits stream and passes to DecodeBlock is in 0..16, so the lookups in the
\* 17-entry ENCODING_BLOCK_LEN and decodeTable tables are always in range,
\* for every input buffer.
C34_WidthsInRange ==
    (codec.mode = "frame" /\ codec.phase \in {"locals", "rows", "returned", "aborted"}) =>
        /\ \A i \in 1..Min(Len(codec.bits), 4 * Quads(codec.encW, codec.encH)) :
              codec.bits[i] \in 0..16
        /\ ~codec.wild

\* C36 as stated: on every call reachable from Decode, the byte count
\* DecodeBlock returns is at most ENCODING_BLOCK_LEN[bits], including the
\* under-run case where it returns the remaining length len - offset
\* computed in unsigned size arithmetic.
C36_ReturnWithinBlockLen ==
    codec.mode = "frame" => ~codec.far

\* C35 as stated: DecodeMetadata terminates for every 32-bit count value read
\* from the stream prefix: its block loop, which advances a 32-bit unsigned
\* counter by 64 per block, reaches the count after finitely many iterations.
C35_LoopTerminates ==
    codec.mode = "loop" ~> codec.phase \in {"done", "thrown"}

====
